---- MODULE Spec2Model ----
(***************************************************************************)
(* Model of the Tableau refresh-schedule manager: the analysis engine      *)
(* (lib/analyzer), the date filter (lib/filters), the schedule utilities   *)
(* (lib/utils), the XML serializer and its validator (lib/xml-builder),    *)
(* the request schema (lib/schemas), the batch store and impact hook, the  *)
(* Tableau client's retrying batch update and the reschedule endpoint.     *)
(*                                                                         *)
(* Conventions.  A time string "HH:MM" or "HH:MM:SS" is the tuple of its   *)
(* colon-separated parts after parseInt (<<22, 0>>, <<22, 0, 0>>); the     *)
(* empty tuple is a missing / null / empty time, and a part equal to NaN   *)
(* is a part parseInt cannot read.  An undefined or null string is "".     *)
(***************************************************************************)
EXTENDS Integers, Sequences, FiniteSets, TLC

VARIABLES
    tasks,      \* raw task records handed to analyzeScheduledTasks
    clock,      \* [year, month]: what getCurrentYearMonth returns
    analysis,   \* the last AnalysisResponse (ran = FALSE before the first); MCP: the cached one
    cfg,        \* the ScheduleConfig handed to buildScheduleXml
    xml,        \* what buildScheduleXml produced for cfg
    items,      \* batch store: the BatchPlanItems of the plan, in order
    isExpanded, \* batch store: whether the batch drawer is open
    request,    \* reschedule route: the request body, [json, changes]
    env,        \* the process: whether the Tableau environment variables are set
    pc,         \* reschedule route: where POST stands
    credentials, \* Tableau client: whether it holds credentials
    results,    \* Tableau client: the results batchUpdateTasks has collected
    attempt,    \* Tableau client: the attempt number of the running updateWithRetry
    log,        \* the calls made to the Tableau server and the sleeps, in order
    revalidated, \* whether revalidateTag("tableau") was called
    response,   \* what POST answered
    mcpClient,  \* MCP service: whether the singleton TableauClient exists
    authenticated, \* MCP service: the authenticated flag
    cacheStore, \* MCP cache: the entry under the key "analysis"
    serverVersion, \* Tableau: how many schedule updates the server has applied
    invalidatedAt, \* the newest update a completed invalidateCache() followed
    signIns,    \* how many times the MCP service called signIn
    toolCalls,  \* MCP tool calls: tool, position, data per call
    running,    \* whether the MCP process is still up
    signingOut, \* MCP service: whether shutdown() awaits its client.signOut()
    dialog,     \* ApplyDialog: its state, the items handleApply captured, the results it set
    sim,        \* the simulate_move call: its arguments and, once getAnalysis returned, its answer
    cards,      \* HealthCards: the metrics the dashboard cards show
    staleQueries \* query client: the query keys invalidated and not yet fetched again

analysisVars == <<tasks, clock, analysis>>
xmlVars == <<cfg, xml>>
storeVars == <<items, isExpanded>>

routeVars == <<request, env, pc, credentials, results, attempt, log, revalidated, response>>
mcpVars == <<mcpClient, authenticated, cacheStore, serverVersion, invalidatedAt, signIns, toolCalls, running,
            signingOut>>
vars == <<tasks, clock, analysis, cfg, xml, items, isExpanded,
          request, env, pc, credentials, results, attempt, log, revalidated, response,
          mcpClient, authenticated, cacheStore, serverVersion, invalidatedAt, signIns, toolCalls, running,
          signingOut, dialog, sim, cards, staleQueries>>

----------------------------------------------------------------------------
(* Bounds *)

MaxTasks == 2
MaxItems == 2
MaxChanges == 2
MaxCalls == 3
MaxSimCalls == 2

----------------------------------------------------------------------------
(* JavaScript values *)

NaN == -1
Null == <<>>

Hours == 0..23

RECURSIVE SeqSum(_)
SeqSum(s) == IF s = <<>> THEN 0 ELSE Head(s) + SeqSum(Tail(s))

Range(s) == {s[i] : i \in 1..Len(s)}

Includes(s, x) == \E i \in 1..Len(s) : s[i] = x

\* Array.prototype.indexOf, 0-based, -1 when absent
IndexOf(s, x) ==
    IF Includes(s, x) THEN (CHOOSE i \in 1..Len(s) : s[i] = x /\ \A j \in 1..(i-1) : s[j] # x) - 1
    ELSE -1

RECURSIVE SortedSeq(_)
SortedSeq(S) ==
    IF S = {} THEN <<>>
    ELSE LET m == CHOOSE x \in S : \A y \in S : x <= y
         IN <<m>> \o SortedSeq(S \ {m})

RECURSIVE Perms(_)
Perms(s) ==
    IF s = <<>> THEN {<<>>}
    ELSE UNION {{<<s[i]>> \o p : p \in Perms(SubSeq(s, 1, i-1) \o SubSeq(s, i+1, Len(s)))}
                : i \in 1..Len(s)}

----------------------------------------------------------------------------
(* Calendar arithmetic behind the platform Date object *)

IsLeap(y) == (y % 4 = 0 /\ y % 100 # 0) \/ y % 400 = 0

\* new Date(year, month, 0).getDate()
getDaysInMonth(year, month) ==
    IF month = 2 THEN (IF IsLeap(year) THEN 29 ELSE 28)
    ELSE IF month \in {4, 6, 9, 11} THEN 30 ELSE 31

\* new Date(year, month - 1, day).getDay(): 0 = Sunday .. 6 = Saturday
JsGetDay(year, month, day) ==
    LET t == <<0, 3, 2, 5, 0, 3, 5, 1, 4, 6, 2, 4>>
        y == IF month < 3 THEN year - 1 ELSE year
    IN (y + (y \div 4) - (y \div 100) + (y \div 400) + t[month] + day) % 7

----------------------------------------------------------------------------
(* lib/analyzer *)

SHORT_DAY_NAMES == <<"Mon", "Tue", "Wed", "Thu", "Fri", "Sat", "Sun">>
FULL_DAY_NAMES == <<"Monday", "Tuesday", "Wednesday", "Thursday", "Friday", "Saturday", "Sunday">>
JS_DAY_NAMES == <<"Sunday", "Monday", "Tuesday", "Wednesday", "Thursday", "Friday", "Saturday">>

\* Tableau weekday name -> heatmap y-index (0 = Monday); -1 when the name is no key
DAY_NAME_TO_INDEX(name) == IndexOf(FULL_DAY_NAMES, name)

\* String(n) for the day numbers 1..31
DayStr == [n \in 1..31 |-> CASE n = 1 -> "1" [] n = 2 -> "2" [] n = 3 -> "3" [] n = 4 -> "4"
    [] n = 5 -> "5" [] n = 6 -> "6" [] n = 7 -> "7" [] n = 8 -> "8" [] n = 9 -> "9"
    [] n = 10 -> "10" [] n = 11 -> "11" [] n = 12 -> "12" [] n = 13 -> "13" [] n = 14 -> "14"
    [] n = 15 -> "15" [] n = 16 -> "16" [] n = 17 -> "17" [] n = 18 -> "18" [] n = 19 -> "19"
    [] n = 20 -> "20" [] n = 21 -> "21" [] n = 22 -> "22" [] n = 23 -> "23" [] n = 24 -> "24"
    [] n = 25 -> "25" [] n = 26 -> "26" [] n = 27 -> "27" [] n = 28 -> "28" [] n = 29 -> "29"
    [] n = 30 -> "30" [] n = 31 -> "31"]

ParseDay_Never(s) == NaN

\* parseInt(monthDay, 10) for a day-of-month attribute
ParseDay(s) == IF \E n \in 1..31 : DayStr[n] = s THEN CHOOSE n \in 1..31 : DayStr[n] = s ELSE NaN

\* parseScheduleTime: null for a missing time, else parseInt of the first part
parseScheduleTime(timeStr) == IF timeStr = Null THEN Null ELSE <<timeStr[1]>>

\* one <interval .../> of frequencyDetails.intervals; 0 and "" are absent attributes
Interval(hours, minutes, weekDay, monthDay) ==
    [hours |-> hours, minutes |-> minutes, weekDay |-> weekDay, monthDay |-> monthDay]

RECURSIVE DaysOf(_)
DaysOf(intervalList) ==
    IF intervalList = <<>> THEN <<>>
    ELSE LET item == Head(intervalList)
         IN (IF item.weekDay # "" /\ DAY_NAME_TO_INDEX(item.weekDay) # -1
             THEN <<DAY_NAME_TO_INDEX(item.weekDay)>> ELSE <<>>) \o DaysOf(Tail(intervalList))

extractScheduleDays(intervals) ==
    LET days == DaysOf(intervals)
    IN IF Len(days) > 0 THEN days ELSE <<0, 1, 2, 3, 4, 5, 6>>

getIntervalList(intervals) == intervals

MatchesItem_LastIsFourth(item, dayNum, daysInMonth, jsWeekDayName) ==
    LET monthDay == item.monthDay
        weekDay == item.weekDay
        occurrence == ((dayNum - 1) \div 7) + 1
        isLastOccurrence == occurrence = 4
    IN \/ /\ weekDay = ""
          /\ monthDay # ""
          /\ \/ (monthDay = "LastDay" /\ dayNum = daysInMonth)
             \/ (ParseDay(monthDay) # NaN /\ ParseDay(monthDay) = dayNum)
       \/ /\ weekDay # ""
          /\ monthDay # ""
          /\ jsWeekDayName = weekDay
          /\ \/ (monthDay = "First" /\ occurrence = 1)
             \/ (monthDay = "Second" /\ occurrence = 2)
             \/ (monthDay = "Third" /\ occurrence = 3)
             \/ (monthDay = "Fourth" /\ occurrence = 4)
             \/ (monthDay = "Fifth" /\ occurrence = 5)
             \/ (monthDay = "Last" /\ isLastOccurrence)

MatchesItem(item, dayNum, daysInMonth, jsWeekDayName) ==
    LET monthDay == item.monthDay
        weekDay == item.weekDay
        occurrence == ((dayNum - 1) \div 7) + 1
        isLastOccurrence == dayNum + 7 > daysInMonth
    IN \/ /\ weekDay = ""
          /\ monthDay # ""
          /\ \/ (monthDay = "LastDay" /\ dayNum = daysInMonth)
             \/ (ParseDay(monthDay) # NaN /\ ParseDay(monthDay) = dayNum)
       \/ /\ weekDay # ""
          /\ monthDay # ""
          /\ jsWeekDayName = weekDay
          /\ \/ (monthDay = "First" /\ occurrence = 1)
             \/ (monthDay = "Second" /\ occurrence = 2)
             \/ (monthDay = "Third" /\ occurrence = 3)
             \/ (monthDay = "Fourth" /\ occurrence = 4)
             \/ (monthDay = "Fifth" /\ occurrence = 5)
             \/ (monthDay = "Last" /\ isLastOccurrence)

matchesMonthlyScheduleDate(dayNum, daysInMonth, jsWeekDayName, intervals) ==
    LET intervalList == getIntervalList(intervals)
    IN \E i \in 1..Len(intervalList) : MatchesItem(intervalList[i], dayNum, daysInMonth, jsWeekDayName)

RECURSIVE extractHourInterval(_)
extractHourInterval(intervals) ==
    IF intervals = <<>> THEN 1
    ELSE LET item == Head(intervals)
         IN IF item.hours # 0 THEN item.hours
            ELSE IF item.minutes # 0 THEN 1
            ELSE extractHourInterval(Tail(intervals))

\* the while loop of expandHourlyRunHours: true of no h once a comparison involves NaN
RECURSIVE WalkHours(_, _, _)
WalkHours(currentMinutes, endMinutes, hourInterval) ==
    IF currentMinutes <= endMinutes /\ currentMinutes \div 60 <= 23
    THEN {currentMinutes \div 60} \cup WalkHours(currentMinutes + hourInterval * 60, endMinutes, hourInterval)
    ELSE {}

expandHourlyRunHours(startTime, endTime, intervals) ==
    LET startHour == startTime[1]
        startMinute == IF Len(startTime) > 1 THEN startTime[2] ELSE 0
    IN IF endTime = Null THEN parseScheduleTime(startTime)
       ELSE LET endHour == endTime[1]
                endMinute == IF Len(endTime) > 1 THEN endTime[2] ELSE 0
                hourInterval == extractHourInterval(intervals)
            IN IF NaN \in {startHour, startMinute, endHour, endMinute} THEN <<>>
               ELSE SortedSeq(WalkHours(startHour * 60 + startMinute, endHour * 60 + endMinute, hourInterval))

\* a raw task record as the Tableau client returns it (extractRefresh.schedule flattened)
RawTask(id, frequency, start, end, intervals) ==
    [id |-> id, frequency |-> frequency, start |-> start, end |-> end, intervals |-> intervals]

\* String.prototype.toLowerCase, character by character: a letter A-Z becomes its
\* lower-case letter and every other character stays (the strings of the model
\* hold ASCII only)
UpperLetters == "ABCDEFGHIJKLMNOPQRSTUVWXYZ"
LowerLetters == "abcdefghijklmnopqrstuvwxyz"

LetterAt(letters, i) == SubSeq(letters, i, i)

LowerChar(c) ==
    IF \E i \in 1..Len(UpperLetters) : LetterAt(UpperLetters, i) = c
    THEN LetterAt(LowerLetters, CHOOSE i \in 1..Len(UpperLetters) : LetterAt(UpperLetters, i) = c)
    ELSE c

RECURSIVE ToLowerCase(_)
ToLowerCase(s) ==
    IF s = "" THEN "" ELSE LowerChar(Head(s)) \o ToLowerCase(Tail(s))

IsHourlyFreq(frequency) == ToLowerCase(frequency) = "hourly"

\* the run hours analyzeScheduledTasks derives for one task that was not skipped
RunHoursOf(task) ==
    LET localHour == parseScheduleTime(task.start)[1]
        extracted == extractHourInterval(task.intervals)
        hourlyInterval == IF extracted \in {2, 4, 6, 8, 12, 24} THEN extracted ELSE 24
    IN IF IsHourlyFreq(task.frequency)
       THEN expandHourlyRunHours(task.start, task.end, task.intervals)
       ELSE IF ToLowerCase(task.frequency) = "daily"
            THEN IF hourlyInterval < 24 /\ task.end # Null
                 THEN expandHourlyRunHours(task.start, task.end, task.intervals)
                 ELSE <<localHour>>
            ELSE <<localHour>>

HourlyIntervalOf(task) ==
    LET extracted == extractHourInterval(task.intervals)
    IN IF IsHourlyFreq(task.frequency) THEN extracted
       ELSE IF ToLowerCase(task.frequency) = "daily"
            THEN (IF extracted \in {2, 4, 6, 8, 12, 24} THEN extracted ELSE 24)
            ELSE 0

\* the loop body's `continue` guards: a missing start time skips the record
Skipped(task) == task.start = Null \/ parseScheduleTime(task.start) = Null

\* the taskInfo pushed onto taskDetails
TaskInfoOf(task) ==
    LET runDays == extractScheduleDays(task.intervals)
    IN [id |-> task.id,
        hour |-> parseScheduleTime(task.start)[1],
        days |-> [i \in 1..Len(runDays) |-> FULL_DAY_NAMES[runDays[i] + 1]],
        schedule_frequency |-> task.frequency,
        schedule_start_utc |-> task.start,
        schedule_end_utc |-> task.end,
        schedule_intervals |-> task.intervals,
        is_hourly |-> IsHourlyFreq(task.frequency),
        hourly_interval |-> HourlyIntervalOf(task),
        run_hours |-> RunHoursOf(task)]

\* tasksByHourParam[rh].push(taskInfo) throws a TypeError when rh is no key 0..23
PushThrows(task) == \E i \in 1..Len(RunHoursOf(task)) : RunHoursOf(task)[i] \notin Hours

CountIn(s, x) == Cardinality({i \in 1..Len(s) : s[i] = x})

RECURSIVE TaskDetailsOf(_)
TaskDetailsOf(ts) ==
    IF ts = <<>> THEN <<>>
    ELSE (IF Skipped(Head(ts)) THEN <<>> ELSE <<TaskInfoOf(Head(ts))>>) \o TaskDetailsOf(Tail(ts))

HourlyCounts_PerTask(taskDetails) ==
    [h \in Hours |-> SeqSum([i \in 1..Len(taskDetails) |-> CountIn(taskDetails[i].run_hours, h)])]

\* hourlyCountsParam after the task loop
HourlyCounts(taskDetails) ==
    [h \in Hours |-> SeqSum([i \in 1..Len(taskDetails) |->
        Len(taskDetails[i].days) * CountIn(taskDetails[i].run_hours, h)])]

HourlyOnlyCounts(taskDetails) ==
    [h \in Hours |-> SeqSum([i \in 1..Len(taskDetails) |->
        IF taskDetails[i].is_hourly
        THEN Len(taskDetails[i].days) * CountIn(taskDetails[i].run_hours, h) ELSE 0])]

DailyCounts_PerTask(taskDetails) ==
    [d \in 0..6 |-> SeqSum([i \in 1..Len(taskDetails) |-> CountIn(taskDetails[i].days, FULL_DAY_NAMES[d + 1])])]

\* dailyCountsParam after the task loop, keyed by heatmap index 0 = Monday
DailyCounts(taskDetails) ==
    [d \in 0..6 |-> SeqSum([i \in 1..Len(taskDetails) |->
        CountIn(taskDetails[i].days, FULL_DAY_NAMES[d + 1]) * Len(taskDetails[i].run_hours)])]

computeHeatmap_HeadOnly(taskDetails) ==
    [c \in (0..6) \X Hours |->
        IF taskDetails = <<>> THEN 0
        ELSE CountIn(taskDetails[1].days, FULL_DAY_NAMES[c[1] + 1]) * CountIn(taskDetails[1].run_hours, c[2])]

computeHeatmap(taskDetails) ==
    [c \in (0..6) \X Hours |-> SeqSum([i \in 1..Len(taskDetails) |->
        CountIn(taskDetails[i].days, FULL_DAY_NAMES[c[1] + 1]) * CountIn(taskDetails[i].run_hours, c[2])])]

\* shouldInclude of computeMonthlyCalendar for one taskInfo and one day of the month
CalendarIncludes(taskInfo, year, month, dayNum) ==
    LET daysInMonth == getDaysInMonth(year, month)
        jsDay == JsGetDay(year, month, dayNum)
        weekday == IF jsDay = 0 THEN 6 ELSE jsDay - 1
        runDays == {IndexOf(FULL_DAY_NAMES, taskInfo.days[i]) : i \in 1..Len(taskInfo.days)} \ {-1}
    IN IF ToLowerCase(taskInfo.schedule_frequency) = "monthly"
       THEN matchesMonthlyScheduleDate(dayNum, daysInMonth, JS_DAY_NAMES[jsDay + 1], taskInfo.schedule_intervals)
       ELSE weekday \in runDays

computeMonthlyCalendar(taskDetails, year, month) ==
    [dayNum \in 1..getDaysInMonth(year, month) |-> SeqSum([i \in 1..Len(taskDetails) |->
        IF CalendarIncludes(taskDetails[i], year, month, dayNum)
        THEN Len(taskDetails[i].run_hours) ELSE 0])]

\* a ScheduleConfig (lib/types): times are part tuples, null strings are "", and a
\* monthDays entry is MonthDayNum(n) or LastDay
MonthDayNum(n) == [tok |-> "", n |-> n]
LastDay == [tok |-> "LastDay", n |-> 0]

Schedule(frequency, startTime, endTime, intervalHours, weekDays, monthDays, monthlyOrdinal, monthlyWeekDay) ==
    [frequency |-> frequency, startTime |-> startTime, endTime |-> endTime,
     intervalHours |-> intervalHours, weekDays |-> weekDays, monthDays |-> monthDays,
     monthlyOrdinal |-> monthlyOrdinal, monthlyWeekDay |-> monthlyWeekDay]

NoSchedule == Schedule("", Null, Null, 0, <<>>, <<>>, "", "")

\* taskDetails.map(...) to the RefreshTask type
RefreshTaskOf(t) ==
    [id |-> t.id,
     schedule |-> Schedule(t.schedule_frequency, t.schedule_start_utc, t.schedule_end_utc,
                           t.hourly_interval, t.days, <<>>, "", ""),
     isHourly |-> t.is_hourly,
     runHours |-> t.run_hours,
     taskDays |-> Len(t.days)]

----------------------------------------------------------------------------
(* lib/filters *)

SUNDAY_FIRST_DAY_NAMES == <<"Sunday", "Monday", "Tuesday", "Wednesday", "Thursday", "Friday", "Saturday">>

OrdinalMatches(ordinal, occurrence, isLastOccurrence) ==
    CASE ordinal = "Last" -> isLastOccurrence
      [] ordinal = "First" -> occurrence = 1
      [] ordinal = "Second" -> occurrence = 2
      [] ordinal = "Third" -> occurrence = 3
      [] ordinal = "Fourth" -> occurrence = 4
      [] ordinal = "Fifth" -> occurrence = 5
      [] OTHER -> TRUE

taskRunsOnDate(task, year, month, day) ==
    LET dayName == SUNDAY_FIRST_DAY_NAMES[JsGetDay(year, month, day) + 1]
        weekDays == task.schedule.weekDays
        lastDayOfMonth == getDaysInMonth(year, month)
        occurrence == ((day - 1) \div 7) + 1
        isLastOccurrence == day + 7 > lastDayOfMonth
    IN IF year = 0 \/ month = 0 \/ day = 0 THEN TRUE
       ELSE IF Len(weekDays) > 0 /\ ~Includes(weekDays, dayName) THEN FALSE
       ELSE IF task.schedule.frequency # "Monthly" THEN TRUE
       ELSE IF Len(task.schedule.monthDays) > 0
            THEN \E i \in 1..Len(task.schedule.monthDays) :
                    LET monthDay == task.schedule.monthDays[i]
                    IN IF monthDay = LastDay THEN day = lastDayOfMonth ELSE monthDay.n = day
       ELSE IF task.schedule.monthlyOrdinal # "" /\ task.schedule.monthlyWeekDay # ""
            THEN IF task.schedule.monthlyWeekDay # dayName THEN FALSE
                 ELSE OrdinalMatches(task.schedule.monthlyOrdinal, occurrence, isLastOccurrence)
       ELSE TRUE

----------------------------------------------------------------------------
(* lib/xml-builder *)

ALL_WEEKDAYS == <<"Sunday", "Monday", "Tuesday", "Wednesday", "Thursday", "Friday", "Saturday">>

DAILY_INTERVAL_OPTIONS == {2, 4, 6, 8, 12, 24}

MONTHLY_ORDINALS == {"First", "Second", "Third", "Fourth", "Fifth", "Last"}

\* time.split(":")[1] ?? "00"
MinutePart(time) == IF Len(time) > 1 THEN time[2] ELSE 0

\* validateMinuteAlignment with the comparison dropped
validateMinuteAlignment_NoCheck(startTime, endTime) == ""

\* validateMinuteAlignment: the message it throws, "" when it returns
validateMinuteAlignment(startTime, endTime) ==
    IF MinutePart(startTime) # MinutePart(endTime)
    THEN "startTime and endTime must have matching minutes" ELSE ""

MonthDaysError(monthDays) ==
    IF \E i \in 1..Len(monthDays) :
          monthDays[i] # LastDay /\ (monthDays[i].n < 1 \/ monthDays[i].n > 31)
    THEN "Invalid monthDay value" ELSE ""

\* validateSchedule: the message of the Error it throws, "" when it returns normally
validateSchedule(schedule) ==
    LET hasMonthDays == Len(schedule.monthDays) > 0
        hasOrdinal == schedule.monthlyOrdinal # "" /\ schedule.monthlyWeekDay # ""
    IN IF schedule.startTime = Null THEN "startTime is required"
       ELSE CASE schedule.frequency = "Hourly" ->
                 IF schedule.intervalHours # 1 THEN "Hourly frequency requires intervalHours === 1"
                 ELSE IF schedule.endTime = Null THEN "Hourly frequency requires endTime"
                 ELSE validateMinuteAlignment(schedule.startTime, schedule.endTime)
              [] schedule.frequency = "Daily" ->
                 IF schedule.intervalHours = 0 \/ schedule.intervalHours \notin {2, 4, 6, 8, 12, 24}
                 THEN "Daily frequency requires intervalHours in [2, 4, 6, 8, 12, 24]"
                 ELSE IF schedule.intervalHours \in {2, 4, 6, 8, 12} /\ schedule.endTime = Null
                 THEN "Daily frequency requires endTime"
                 ELSE IF schedule.endTime # Null
                 THEN validateMinuteAlignment(schedule.startTime, schedule.endTime)
                 ELSE ""
              [] schedule.frequency = "Weekly" ->
                 IF Len(schedule.weekDays) = 0 THEN "Weekly frequency requires at least one weekDay"
                 ELSE IF Len(schedule.weekDays) > 7 THEN "Weekly frequency cannot have more than 7 weekDays"
                 ELSE ""
              [] schedule.frequency = "Monthly" ->
                 IF hasMonthDays /\ hasOrdinal
                 THEN "Monthly: monthDays and monthlyOrdinal are mutually exclusive"
                 ELSE IF ~hasMonthDays /\ ~hasOrdinal
                 THEN "Monthly requires either monthDays or (monthlyOrdinal + monthlyWeekDay)"
                 ELSE IF hasMonthDays /\ MonthDaysError(schedule.monthDays) # ""
                 THEN MonthDaysError(schedule.monthDays)
                 ELSE IF hasOrdinal /\ schedule.monthlyOrdinal \notin MONTHLY_ORDINALS
                 THEN "Invalid monthlyOrdinal"
                 ELSE IF hasOrdinal /\ ~Includes(ALL_WEEKDAYS, schedule.monthlyWeekDay)
                 THEN "Invalid monthlyWeekDay"
                 ELSE ""
              [] OTHER -> "Unsupported frequency"

\* ensureTimeFormat: "HH:MM" becomes "HH:MM:00", anything else is returned as is
ensureTimeFormat(time) == IF Len(time) = 2 THEN time \o <<0>> ELSE time

WeekDayIntervals(weekDays) == [i \in 1..Len(weekDays) |-> Interval(0, 0, weekDays[i], "")]

buildHourlyIntervals(intervalHours, weekDays) ==
    LET effectiveDays == IF Len(weekDays) = 0 THEN ALL_WEEKDAYS ELSE weekDays
    IN <<Interval(intervalHours, 0, "", "")>> \o WeekDayIntervals(effectiveDays)

buildDailyIntervals(intervalHours, weekDays) ==
    LET effectiveDays == IF Len(weekDays) = 0 THEN ALL_WEEKDAYS ELSE weekDays
    IN <<Interval(intervalHours, 0, "", "")>> \o WeekDayIntervals(effectiveDays)

\* what an interval builder hands back: the intervals, or the Error it throws
IntervalsBuilt(intervals) == [threw |-> FALSE, error |-> "", intervals |-> intervals]
IntervalsThrown(message) == [threw |-> TRUE, error |-> message, intervals |-> <<>>]

buildWeeklyIntervals(weekDays) ==
    IF Len(weekDays) = 0
    THEN IntervalsThrown("Weekly frequency requires at least one weekDay")
    ELSE IntervalsBuilt(WeekDayIntervals(weekDays))

\* String(day) of a validated monthDays entry
MonthDayAttr(day) == IF day = LastDay THEN "LastDay" ELSE DayStr[day.n]

buildMonthlyIntervals(monthDays, monthlyOrdinal, monthlyWeekDay) ==
    LET hasMonthDays == Len(monthDays) > 0
        hasOrdinal == monthlyOrdinal # "" /\ monthlyWeekDay # ""
    IN IF hasMonthDays /\ hasOrdinal
       THEN IntervalsThrown("Monthly frequency: monthDays and monthlyOrdinal are mutually exclusive")
       ELSE IF ~hasMonthDays /\ ~hasOrdinal
       THEN IntervalsThrown("Monthly frequency requires either monthDays or (monthlyOrdinal + monthlyWeekDay)")
       ELSE IF hasMonthDays
       THEN IntervalsBuilt([i \in 1..Len(monthDays) |-> Interval(0, 0, "", MonthDayAttr(monthDays[i]))])
       ELSE IntervalsBuilt(<<Interval(0, 0, monthlyWeekDay, monthlyOrdinal)>>)

\* wrapXml that writes an end attribute even when it is given none
wrapXml_AlwaysEnd(frequency, start, end, intervals) ==
    [threw |-> FALSE, error |-> "", frequency |-> frequency, start |-> start,
     end |-> IF end = Null THEN start ELSE end, intervals |-> intervals]

\* the tsRequest document: the end attribute is present iff end is not Null
wrapXml(frequency, start, end, intervals) ==
    [threw |-> FALSE, error |-> "", frequency |-> frequency, start |-> start,
     end |-> end, intervals |-> intervals]

XmlThrown(message) ==
    [threw |-> TRUE, error |-> message, frequency |-> "", start |-> Null, end |-> Null, intervals |-> <<>>]

NoXml == [threw |-> FALSE, error |-> "", frequency |-> "", start |-> Null, end |-> Null, intervals |-> <<>>]

buildScheduleXml(schedule) ==
    LET startTimeFull == ensureTimeFormat(schedule.startTime)
        endTimeFull == IF schedule.endTime # Null THEN ensureTimeFormat(schedule.endTime) ELSE Null
    IN IF validateSchedule(schedule) # "" THEN XmlThrown(validateSchedule(schedule))
       ELSE CASE schedule.frequency = "Hourly" ->
                 wrapXml("Hourly", startTimeFull, endTimeFull,
                         buildHourlyIntervals(schedule.intervalHours, schedule.weekDays))
              [] schedule.frequency = "Daily" ->
                 wrapXml("Daily", startTimeFull, endTimeFull,
                         buildDailyIntervals(schedule.intervalHours, schedule.weekDays))
              [] schedule.frequency = "Weekly" ->
                 LET built == buildWeeklyIntervals(schedule.weekDays)
                 IN IF built.threw THEN XmlThrown(built.error)
                    ELSE wrapXml("Weekly", startTimeFull, Null, built.intervals)
              [] schedule.frequency = "Monthly" ->
                 LET built == buildMonthlyIntervals(schedule.monthDays, schedule.monthlyOrdinal,
                                                    schedule.monthlyWeekDay)
                 IN IF built.threw THEN XmlThrown(built.error)
                    ELSE wrapXml("Monthly", startTimeFull, Null, built.intervals)

----------------------------------------------------------------------------
(* lib/schemas *)

\* /^\d{2}:\d{2}(:\d{2})?$/ on a time string
TimeRegex(time) == Len(time) \in {2, 3} /\ \A i \in 1..Len(time) : time[i] \in 0..99

WeekDayEnum(weekDays) == \A i \in 1..Len(weekDays) : Includes(ALL_WEEKDAYS, weekDays[i])

\* z.union([z.number().int().min(1).max(31), z.literal("LastDay")])
MonthDayUnion(monthDays) ==
    \A i \in 1..Len(monthDays) : monthDays[i] = LastDay \/ monthDays[i].n \in 1..31

\* scheduleConfigSchema.safeParse(schedule).success
scheduleConfigSchema(schedule) ==
    /\ TimeRegex(schedule.startTime)
    /\ WeekDayEnum(schedule.weekDays)
    /\ CASE schedule.frequency = "Hourly" ->
            /\ schedule.intervalHours = 1
            /\ TimeRegex(schedule.endTime)
            /\ schedule.monthlyOrdinal = ""
            /\ schedule.monthlyWeekDay = ""
         [] schedule.frequency = "Daily" ->
            /\ schedule.intervalHours \in {2, 4, 6, 8, 12, 24}
            /\ (schedule.endTime = Null \/ TimeRegex(schedule.endTime))
            /\ schedule.monthlyOrdinal = ""
            /\ schedule.monthlyWeekDay = ""
            /\ (schedule.intervalHours \in {2, 4, 6, 8, 12} => schedule.endTime # Null)
         [] schedule.frequency = "Weekly" ->
            /\ schedule.intervalHours \in {24, 0}
            /\ schedule.endTime = Null
            /\ Len(schedule.weekDays) >= 1
            /\ Len(schedule.weekDays) <= 7
            /\ schedule.monthlyOrdinal = ""
            /\ schedule.monthlyWeekDay = ""
         [] schedule.frequency = "Monthly" ->
            /\ schedule.intervalHours \in {24, 0}
            /\ schedule.endTime = Null
            /\ MonthDayUnion(schedule.monthDays)
            /\ schedule.monthlyOrdinal \in MONTHLY_ORDINALS \cup {""}
            /\ (schedule.monthlyWeekDay = "" \/ Includes(ALL_WEEKDAYS, schedule.monthlyWeekDay))
            /\ (Len(schedule.monthDays) > 0) # (schedule.monthlyOrdinal # "" /\ schedule.monthlyWeekDay # "")
         [] OTHER -> FALSE

\* rescheduleRequestSchema.safeParse(body).success for a body { changes: [...] }
rescheduleRequestSchema(changes) ==
    /\ Len(changes) >= 1
    /\ \A i \in 1..Len(changes) : changes[i].taskId # "" /\ scheduleConfigSchema(changes[i].schedule)

----------------------------------------------------------------------------
(* lib/utils and lib/constants *)

\* parseTime(time).hour of a time string; NaN stands in for a start the callers
\* never leave null
ParseHour(time) == IF time = Null THEN NaN ELSE time[1]

\* a <= b in JavaScript: false when either side is NaN
Lte(a, b) == a # NaN /\ b # NaN /\ a <= b

RECURSIVE HourSteps(_, _, _)
\* for (let h = from; h <= to; h += step) hours.push(h)
HourSteps(from, to, step) ==
    IF Lte(from, to) THEN <<from>> \o HourSteps(from + step, to, step) ELSE <<>>

computeRunHours(schedule) ==
    LET startHour == ParseHour(schedule.startTime)
        endHour == ParseHour(schedule.endTime)
    IN IF schedule.frequency = "Hourly" /\ schedule.endTime # Null
       THEN IF Lte(startHour, endHour) THEN HourSteps(startHour, endHour, 1)
            ELSE HourSteps(startHour, 23, 1) \o HourSteps(0, endHour, 1)
       ELSE IF /\ schedule.frequency = "Daily"
               /\ schedule.intervalHours # 0
               /\ schedule.intervalHours < 24
               /\ schedule.endTime # Null
       THEN IF Lte(startHour, endHour) THEN HourSteps(startHour, endHour, schedule.intervalHours)
            ELSE HourSteps(startHour, 23, schedule.intervalHours)
                 \o HourSteps(0, endHour, schedule.intervalHours)
       ELSE <<startHour>>

\* HEALTH_THRESHOLDS, every threshold in tenths (1.8 is 18, 75 is 750)
HEALTH_THRESHOLDS ==
    [loadBalanceScore |-> [green |-> 750, yellow |-> 500],
     peakAvgRatio |-> [green |-> 18, yellow |-> 30],
     utilization |-> [green |-> 600, yellow |-> 400],
     busyWindowPct |-> [green |-> 200, yellow |-> 350]]

\* getHealthColor for the value num / den tenths (den > 0)
getHealthColor(metric, num, den) ==
    LET t == HEALTH_THRESHOLDS[metric]
    IN IF metric \in {"loadBalanceScore", "utilization"}
       THEN IF num >= t.green * den THEN "green"
            ELSE IF num >= t.yellow * den THEN "yellow" ELSE "red"
       ELSE IF num <= t.green * den THEN "green"
            ELSE IF num <= t.yellow * den THEN "yellow" ELSE "red"

----------------------------------------------------------------------------
(* Number: the doubles behind `/`, `*`, Math.sqrt and toFixed. A natural too large
   for the model checker's integers is the sequence of its digits to the base 2^15,
   lowest first and without leading zeros; a double is [m, e] for the value
   m * 2^e, with m a natural of exactly 53 bits *)

Base == 32768

DigitAt(a, i) == IF i \in 1..Len(a) THEN a[i] ELSE 0

LongerLen(a, b) == IF Len(a) > Len(b) THEN Len(a) ELSE Len(b)

\* a without its leading zero digits
Trim(a) == SubSeq(a, 1, Cardinality({i \in 1..Len(a) : \E j \in i..Len(a) : a[j] # 0}))

\* the digits of an integer 0 <= n < 2^31, and the integer of up to three digits
Digits(n) == Trim(<<n % Base, (n \div Base) % Base, n \div (Base * Base)>>)

DigitsValue(a) ==
    IF a = <<>> THEN 0 ELSE DigitAt(a, 1) + Base * DigitAt(a, 2) + Base * Base * DigitAt(a, 3)

\* a is below b at digit i and level with it above, among n digits
BelowAt(a, b, i, n) ==
    DigitAt(a, i) < DigitAt(b, i) /\ \A j \in (i + 1)..n : DigitAt(a, j) = DigitAt(b, j)

\* -1, 0 or 1 as a is below, equal to or above b
CmpDigits(a, b) ==
    IF a = b THEN 0
    ELSE IF \E i \in 1..LongerLen(a, b) : BelowAt(a, b, i, LongerLen(a, b)) THEN -1
    ELSE IF \E i \in 1..LongerLen(a, b) : BelowAt(b, a, i, LongerLen(a, b)) THEN 1
    ELSE 0

\* the digits of the sums s of digits: digit i takes a carry when some digit below
\* it overflows and every digit between the two is full
Carried(s) ==
    Trim([i \in 1..Len(s) |->
            (s[i] + (IF \E j \in 1..(i - 1) : s[j] >= Base /\ \A l \in (j + 1)..(i - 1) : s[l] = Base - 1
                     THEN 1 ELSE 0)) % Base])

\* a + b
AddDigits(a, b) ==
    IF a = <<>> THEN Trim(b)
    ELSE IF b = <<>> THEN Trim(a)
    ELSE Carried([i \in 1..(LongerLen(a, b) + 1) |-> DigitAt(a, i) + DigitAt(b, i)])

\* a - b for a >= b: digit i lends when some digit below it falls short and every
\* digit between the two is level
SubDigits(a, b) ==
    IF b = <<>> THEN Trim(a)
    ELSE Trim([i \in 1..Len(a) |->
                 (a[i] - DigitAt(b, i)
                    - (IF \E j \in 1..(i - 1) : /\ a[j] < DigitAt(b, j)
                                                /\ \A l \in (j + 1)..(i - 1) : a[l] = DigitAt(b, l)
                       THEN 1 ELSE 0)) % Base])

\* a * k for a digit k
TimesDigit(a, k) ==
    IF a = <<>> \/ k = 0 THEN <<>>
    ELSE
    AddDigits([i \in 1..Len(a) |-> (a[i] * k) % Base],
              <<0>> \o [i \in 1..Len(a) |-> (a[i] * k) \div Base])

RECURSIVE MulDigits(_, _)
MulDigits(a, b) ==
    IF b = <<>> THEN <<>>
    ELSE AddDigits(TimesDigit(a, b[1]), <<0>> \o MulDigits(a, Tail(b)))

\* a * 2^k for k > 0, a itself for k <= 0
ShiftLeft(a, k) ==
    IF a = <<>> THEN <<>>
    ELSE IF k <= 0 THEN a
    ELSE [i \in 1..(k \div 15) |-> 0] \o TimesDigit(a, 2 ^ (k % 15))

\* floor(a / (2^15)^whole / part) for part a power of two below 2^15
DropDigits(a, whole, part) ==
    IF Len(a) <= whole THEN <<>>
    ELSE Trim([i \in 1..(Len(a) - whole) |->
                 a[whole + i] \div part + (DigitAt(a, whole + i + 1) % part) * (Base \div part)])

\* floor(a / 2^k)
ShiftRight(a, k) == DropDigits(a, k \div 15, 2 ^ (k % 15))

\* the number of bits of a
BitLen(a) ==
    IF a = <<>> THEN 0
    ELSE 15 * (Len(a) - 1) + Cardinality({j \in 0..14 : 2 ^ j <= a[Len(a)]})

\* the largest of q, q - 1 and q - 2 whose product with b is at most rem
QuotFrom(rem, b, q) ==
    IF CmpDigits(TimesDigit(b, q), rem) <= 0 THEN q
    ELSE IF CmpDigits(TimesDigit(b, q - 1), rem) <= 0 THEN q - 1 ELSE q - 2

\* the digit of the quotient for what is left over, rem, of a division by b whose
\* top digit is 2^14 or more: at most two below the estimate from the top digits
QuotDigit(rem, b) ==
    IF (DigitAt(rem, Len(b) + 1) * Base + DigitAt(rem, Len(b))) \div b[Len(b)] < Base
    THEN QuotFrom(rem, b, (DigitAt(rem, Len(b) + 1) * Base + DigitAt(rem, Len(b))) \div b[Len(b)])
    ELSE QuotFrom(rem, b, Base - 1)

RECURSIVE DivFrom(_, _, _, _, _)
RECURSIVE DivStep(_, _, _, _, _, _)
\* long division of a by b with the digits above i done: quot is their quotient
\* and rem what they left
DivFrom(a, b, i, quot, rem) ==
    IF i = 0 THEN [quot |-> quot, rem |-> rem]
    ELSE DivStep(a, b, i, quot, Trim(<<a[i]>> \o rem), QuotDigit(Trim(<<a[i]>> \o rem), b))

\* the step of the long division that found digit q for what was left, r
DivStep(a, b, i, quot, r, q) ==
    IF q = 0 THEN DivFrom(a, b, i - 1, <<0>> \o quot, r)
    ELSE DivFrom(a, b, i - 1, <<q>> \o quot, SubDigits(r, TimesDigit(b, q)))

\* the quotient and exactness of a finished long division
DivResult(d) == [quot |-> Trim(d.quot), exact |-> d.rem = <<>>]

\* floor(num / den) for den with a top digit of 2^14 or more
DivAligned(num, den) ==
    IF Len(num) < Len(den) THEN [quot |-> <<>>, exact |-> num = <<>>]
    ELSE DivResult(DivFrom(num, den, Len(num) - Len(den) + 1, <<>>,
                           Trim(SubSeq(num, Len(num) - Len(den) + 2, Len(num)))))

\* floor(a / b) and whether the division is exact, for b > 0: both are scaled to
\* bring the top digit of b to 2^14 or more, which leaves the quotient as it is
DivDigits(a, b) ==
    IF Len(a) < Len(b) THEN [quot |-> <<>>, exact |-> a = <<>>]
    ELSE DivAligned(ShiftLeft(a, 15 * Len(b) - BitLen(b)), ShiftLeft(b, 15 * Len(b) - BitLen(b)))

\* the double 0
Zero == [m |-> <<>>, e |-> 0]

\* the double m * 2^e for m of 53 or, after a carry out of the top, 54 bits
Normal(m, e) == IF BitLen(m) = 54 THEN [m |-> ShiftRight(m, 1), e |-> e + 1] ELSE [m |-> m, e |-> e]

\* kept, the top 53 bits of q, one up when the drop low bits of q are above half a
\* unit, or are half a unit and more follows or kept is odd
RoundKept(q, more, drop, kept) ==
    IF CmpDigits(SubDigits(q, ShiftLeft(kept, drop)), ShiftLeft(<<1>>, drop - 1)) > 0
    THEN AddDigits(kept, <<1>>)
    ELSE IF /\ (more \/ kept[1] % 2 = 1)
            /\ CmpDigits(SubDigits(q, ShiftLeft(kept, drop)), ShiftLeft(<<1>>, drop - 1)) = 0
    THEN AddDigits(kept, <<1>>)
    ELSE kept

\* the double nearest to q * 2^e, or to a value less than one unit of q above it
\* when more is set, for q of drop bits above 53; ties go to the even double
RoundAt(q, more, e, drop) ==
    IF drop <= 0 THEN [m |-> ShiftLeft(q, -drop), e |-> e + drop]
    ELSE Normal(RoundKept(q, more, drop, ShiftRight(q, drop)), e + drop)

RoundToDouble(q, more, e) == IF q = <<>> THEN Zero ELSE RoundAt(q, more, e, BitLen(q) - 53)

\* the double nearest to the quotient d of a division, in units of 2^e
RoundQuot(d, e) == RoundToDouble(d.quot, ~d.exact, e)

\* the double nearest to num / den from floor(num * 2^k / den), a quotient of 56
\* or 57 bits
RatioAt(num, den, k) == RoundQuot(DivDigits(ShiftLeft(num, k), ShiftLeft(den, -k)), -k)

\* the double nearest to num / den, for naturals num and den > 0
DoubleOfRatio(num, den) ==
    IF num = <<>> THEN Zero ELSE RatioAt(num, den, 56 - (BitLen(num) - BitLen(den)))

\* x / y for doubles x and y > 0
DivideDoubles(x, y) ==
    IF x.m = <<>> THEN Zero ELSE [DoubleOfRatio(x.m, y.m) EXCEPT !.e = @ + x.e - y.e]

\* the integer 0 <= n < 2^31 as the dividend or divisor of a division
OfInt(n) == [m |-> Digits(n), e |-> 0]

\* a / b for integers a >= 0 and b > 0
DivideInts(a, b) == DivideDoubles(OfInt(a), OfInt(b))

\* a / y for an integer a >= 0 and a double y > 0
DivideByDouble(a, y) == DivideDoubles(OfInt(a), y)

\* x * n for a double x and an integer 0 < n < 2^15
TimesInt(x, n) == IF x.m = <<>> THEN Zero ELSE RoundToDouble(TimesDigit(x.m, n), FALSE, x.e)

\* 1 + x for a double 0 < x < 2^53
OnePlus(x) ==
    IF x.m = <<>> THEN [m |-> ShiftLeft(<<1>>, 52), e |-> -52]
    ELSE RoundToDouble(AddDigits(ShiftLeft(<<1>>, -x.e), x.m), FALSE, x.e)

RECURSIVE IsqrtFrom(_, _)
RECURSIVE IsqrtStep(_, _, _)
\* floor(sqrt(n)) by Newton's iteration from x >= sqrt(n)
IsqrtFrom(n, x) == IsqrtStep(n, x, ShiftRight(AddDigits(x, DivDigits(n, x).quot), 1))

IsqrtStep(n, x, next) == IF CmpDigits(next, x) >= 0 THEN x ELSE IsqrtFrom(n, next)

\* floor(sqrt(n)) for n of eight digits: the iteration starts one above the square
\* root of the top two digits
Isqrt(n) ==
    IsqrtFrom(n, <<0, 0, 0>> \o Digits(Cardinality({s \in 1..(Base - 1) : s * s <= n[8] * Base + n[7]}) + 1))

\* the double nearest to sqrt(n) * 2^e, root being floor(sqrt(n))
RoundRoot(n, root, e) == RoundToDouble(root, MulDigits(root, root) # n, e)

\* Math.sqrt(x) for a double x: the square root of x.m * 2^66 or x.m * 2^67, of
\* 119 or 120 bits, has 60 bits
SqrtOf(n, e) == RoundRoot(n, Isqrt(n), e)

Sqrt(x) ==
    IF x.m = <<>> THEN Zero
    ELSE SqrtOf(ShiftLeft(x.m, 66 + (x.e % 2)), (x.e - (x.e % 2) - 66) \div 2)

\* Math.round(x) for a double x < 2^31
Round(x) ==
    IF x.m = <<>> THEN 0
    ELSE DigitsValue(ShiftRight(AddDigits(x.m, ShiftLeft(<<1>>, -x.e - 1)), -x.e))

\* parseFloat(x.toFixed(1)) in tenths for a double x < 2^27: the integer n with
\* n / 10 nearest to x, the larger one when two are equally near
toFixed(x) ==
    IF x.m = <<>> THEN 0
    ELSE DigitsValue(ShiftRight(AddDigits(TimesDigit(x.m, 20), ShiftLeft(<<1>>, -x.e)), 1 - x.e))

----------------------------------------------------------------------------
(* hooks/use-batch-impact *)

computeTaskDays_AlwaysSeven(schedule) == 7

computeTaskDays(schedule) ==
    IF schedule.frequency = "Weekly"
    THEN (IF Len(schedule.weekDays) # 0 THEN Len(schedule.weekDays) ELSE 7)
    ELSE IF schedule.frequency = "Monthly" THEN 4
    ELSE (IF Len(schedule.weekDays) # 0 THEN Len(schedule.weekDays) ELSE 7)

SetMax(S) == CHOOSE x \in S : \A y \in S : y <= x

\* Math.round(n / d) for n >= 0, d > 0
RoundDiv(n, d) == (2 * n + d) \div (2 * d)

\* parseFloat((maxCount / mean).toFixed(1)) in tenths for the double mean
RatioOfMean(maxCount, mean) == IF mean.m # <<>> THEN toFixed(DivideDoubles(OfInt(maxCount), mean)) ELSE 0

\* parseFloat((maxCount / mean).toFixed(1)) in tenths, mean being total / 24. Only
\* where 240 maxCount / total is exactly half way between two integers do the
\* roundings of the two divisions decide the digit; elsewhere they are too small
\* to reach it
RatioTenths(maxCount, total) ==
    IF (480 * maxCount) % total = 0 /\ ((480 * maxCount) \div total) % 2 = 1
    THEN RatioOfMean(maxCount, DivideInts(total, 24))
    ELSE RoundDiv(240 * maxCount, total)

\* parseFloat(windowPct.toFixed(1)) in tenths, windowPct being (bestSum / total) * 100
PctTenths(bestSum, total) ==
    IF (2000 * bestSum) % total = 0 /\ ((2000 * bestSum) \div total) % 2 = 1
    THEN toFixed(TimesInt(DivideInts(bestSum, total), 100))
    ELSE RoundDiv(1000 * bestSum, total)

\* 576 times the variance of 24 counts with total t and sum of squares q: 24 q - t^2
Spread(t, q) == SubDigits(TimesDigit(Digits(q), 24), Digits(t * t))

\* the sign of odd * spread - side^2 in the model checker's integers
CmpSmall(spread, odd, side) ==
    IF spread < (side * side) \div odd THEN -1
    ELSE IF spread > (side * side) \div odd THEN 1
    ELSE IF (side * side) % odd = 0 THEN 0 ELSE -1

\* the same sign in digits
CmpLarge(spread, odd, side) == CmpDigits(MulDigits(spread, odd), MulDigits(side, side))

\* the sign of (2k - 1)^2 (24 q - t^2) - ((201 - 2k) t)^2, which is the sign of
\* k - 1/2 - 100 / (1 + cv) for cv = stdDev / mean = sqrt(24 q - t^2) / t; in the
\* model checker's integers while they hold the squares, in digits above that
ScoreCmp(k, t, q) ==
    IF 201 * t <= 46340
    THEN CmpSmall(24 * q - t * t, (2 * k - 1) * (2 * k - 1), (201 - 2 * k) * t)
    ELSE CmpLarge(Spread(t, q), Digits((2 * k - 1) * (2 * k - 1)), Digits((201 - 2 * k) * t))

\* cv = mean > 0 ? stdDev / mean : 0
CvOf(stdDev, mean) == IF mean.m # <<>> THEN DivideDoubles(stdDev, mean) ELSE Zero

\* the score where 100 / (1 + cv) is exactly half way between two integers: t is
\* then a multiple of 6, the mean t / 24 and every (c - mean) ** 2 are exact, and
\* the variance is the double nearest to (24 q - t^2) / 576
ScoreOfDoubles(t, q) ==
    Round(DivideDoubles(OfInt(100),
                        OnePlus(CvOf(Sqrt(DoubleOfRatio(Spread(t, q), Digits(576))), DivideInts(t, 24)))))

\* the score for total t and sum of squares q, reached being the largest k with
\* k - 1/2 <= 100 / (1 + cv): the doubles miss it only where the two are equal
ScoreAt(reached, t, q) ==
    IF reached > 0 /\ ScoreCmp(reached, t, q) = 0 THEN ScoreOfDoubles(t, q) ELSE reached

ScoreOfSums(t, q) == ScoreAt(SetMax({k \in 0..100 : k = 0 \/ ScoreCmp(k, t, q) <= 0}), t, q)

\* Math.max(0, Math.round(100 / (1 + cv))) for counts whose total is at most 46340
LoadBalanceScore(counts) ==
    ScoreOfSums(SeqSum([i \in 1..24 |-> counts[i - 1]]),
                SeqSum([i \in 1..24 |-> counts[i - 1] * counts[i - 1]]))

WindowSum(dist, start) == dist[start] + dist[(start + 1) % 24] + dist[(start + 2) % 24]

\* the first start hour whose 3-hour window sum is the largest (0 when all are 0)
BestStart(dist) ==
    IF \A st \in Hours : WindowSum(dist, st) = 0 THEN 0
    ELSE CHOOSE st \in Hours :
            /\ \A o \in Hours : WindowSum(dist, o) <= WindowSum(dist, st)
            /\ \A o \in 0..(st - 1) : WindowSum(dist, o) < WindowSum(dist, st)

NoLoadMetrics_Unguarded ==
    [loadBalanceScore |-> [value |-> 0, health |-> "red"],
     busiestWindow |-> [label |-> <<0, 3>>, count |-> 0, pct |-> 0, health |-> "green"],
     utilization |-> [value |-> 0, health |-> "red"],
     peakAvgRatio |-> [value |-> 0, health |-> "green"]]

\* HealthMetrics; peakAvgRatio.value and busiestWindow.pct are in tenths, the label
\* is <<start hour, end hour>> and <<>> stands for "N/A"
NoLoadMetrics ==
    [loadBalanceScore |-> [value |-> 100, health |-> "green"],
     busiestWindow |-> [label |-> <<>>, count |-> 0, pct |-> 0, health |-> "green"],
     utilization |-> [value |-> 0, health |-> "green"],
     peakAvgRatio |-> [value |-> 0, health |-> "green"]]

computeHealthMetrics(dist) ==
    LET total == SeqSum([i \in 1..24 |-> dist[i - 1]])
        score == LoadBalanceScore(dist)
        bestStart == BestStart(dist)
        bestSum == WindowSum(dist, bestStart)
        activeHours == Cardinality({h \in Hours : dist[h] > 0})
        utilization == RoundDiv(activeHours * 100, 24)
        maxCount == SetMax({dist[h] : h \in Hours})
        ratio == RatioTenths(maxCount, total)
    IN IF total = 0 THEN NoLoadMetrics
       ELSE [loadBalanceScore |-> [value |-> score, health |-> getHealthColor("loadBalanceScore", score * 10, 1)],
             busiestWindow |-> [label |-> <<bestStart, (bestStart + 3) % 24>>, count |-> bestSum,
                                pct |-> PctTenths(bestSum, total),
                                health |-> getHealthColor("busyWindowPct", bestSum * 1000, total)],
             utilization |-> [value |-> utilization, health |-> getHealthColor("utilization", utilization * 10, 1)],
             peakAvgRatio |-> [value |-> ratio, health |-> getHealthColor("peakAvgRatio", ratio, 1)]]

----------------------------------------------------------------------------
(* lib/analyzer: computeEnhancedStats and the analysis result *)

\* computeEnhancedStats reads Object.values of the 24 initialised hour keys and
\* then computes, statement for statement, what computeHealthMetrics computes
computeEnhancedStats(hourlyCountsParam) ==
    computeHealthMetrics([h \in Hours |-> hourlyCountsParam[h]])

NoAnalysis ==
    [ran |-> FALSE, threw |-> FALSE, byHour |-> [h \in Hours |-> 0], byDay |-> [d \in 0..6 |-> 0],
     heatmap |-> [c \in (0..6) \X Hours |-> 0], year |-> 0, month |-> 0, byDate |-> <<>>,
     details |-> <<>>, total |-> 0, enhancedStats |-> NoLoadMetrics]

analyzeScheduledTasks(ts, year, month) ==
    LET taskDetails == TaskDetailsOf(ts)
    IN IF \E i \in 1..Len(ts) : ~Skipped(ts[i]) /\ PushThrows(ts[i])
       THEN [NoAnalysis EXCEPT !.ran = TRUE, !.threw = TRUE]
       ELSE [ran |-> TRUE, threw |-> FALSE,
             byHour |-> HourlyCounts(taskDetails),
             byDay |-> DailyCounts(taskDetails),
             heatmap |-> computeHeatmap(taskDetails),
             year |-> year, month |-> month,
             byDate |-> computeMonthlyCalendar(taskDetails, year, month),
             details |-> [i \in 1..Len(taskDetails) |-> RefreshTaskOf(taskDetails[i])],
             total |-> Len(ts),
             enhancedStats |-> computeEnhancedStats(HourlyCounts(taskDetails))]

----------------------------------------------------------------------------
(* hooks/use-batch-impact: the proposed distribution *)

RECURSIVE SubtractHours_NoClamp(_, _, _)
SubtractHours_NoClamp(dist, runHours, taskDays) ==
    IF runHours = <<>> THEN dist
    ELSE LET hour == Head(runHours)
         IN SubtractHours_NoClamp(IF hour \in Hours THEN [dist EXCEPT ![hour] = @ - taskDays] ELSE dist,
                                  Tail(runHours), taskDays)

RECURSIVE SubtractHours(_, _, _)
\* for (const hour of item.runHours) { proposedDist[hour] -= taskDays; clamp at 0 };
\* a key outside 0..23 is never read by computeHealthMetrics and is left out
SubtractHours(dist, runHours, taskDays) ==
    IF runHours = <<>> THEN dist
    ELSE LET hour == Head(runHours)
         IN SubtractHours(IF hour \in Hours
                          THEN [dist EXCEPT ![hour] = IF @ - taskDays < 0 THEN 0 ELSE @ - taskDays]
                          ELSE dist,
                          Tail(runHours), taskDays)

RECURSIVE AddHours_Overwrite(_, _, _)
AddHours_Overwrite(dist, newRunHours, newTaskDays) ==
    IF newRunHours = <<>> THEN dist
    ELSE AddHours_Overwrite(IF Head(newRunHours) \in Hours
                            THEN [dist EXCEPT ![Head(newRunHours)] = newTaskDays]
                            ELSE dist,
                            Tail(newRunHours), newTaskDays)

RECURSIVE AddHours(_, _, _)
\* for (const hour of item.newRunHours) proposedDist[hour] += newTaskDays
AddHours(dist, newRunHours, newTaskDays) ==
    IF newRunHours = <<>> THEN dist
    ELSE AddHours(IF Head(newRunHours) \in Hours
                  THEN [dist EXCEPT ![Head(newRunHours)] = @ + newTaskDays]
                  ELSE dist,
                  Tail(newRunHours), newTaskDays)

RECURSIVE ProposedDist(_, _)
\* the loop over the plan's items in useBatchImpact
ProposedDist(dist, plan) ==
    IF plan = <<>> THEN dist
    ELSE LET item == Head(plan)
         IN ProposedDist(AddHours(SubtractHours(dist, item.runHours, item.taskDays),
                                  item.newRunHours, computeTaskDays(item.newSchedule)),
                         Tail(plan))

\* useBatchImpact: the ImpactPreview for a non-empty plan and loaded data
useBatchImpact(plan, data) ==
    LET currentDist == data.byHour
        proposedDist == ProposedDist(data.byHour, plan)
        currentMetrics == computeHealthMetrics(currentDist)
        proposedMetrics == computeHealthMetrics(proposedDist)
    IN [currentDist |-> currentDist,
        proposedDist |-> proposedDist,
        currentMetrics |-> currentMetrics,
        proposedMetrics |-> proposedMetrics,
        deltas |-> [loadBalanceScore |-> proposedMetrics.loadBalanceScore.value
                                         - currentMetrics.loadBalanceScore.value,
                    peakAvgRatio |-> proposedMetrics.peakAvgRatio.value - currentMetrics.peakAvgRatio.value,
                    busyWindowPct |-> proposedMetrics.busiestWindow.pct - currentMetrics.busiestWindow.pct]]

\* useBatchImpact returns null for an empty plan or before data has loaded
HasImpact == Len(items) > 0 /\ analysis.ran /\ ~analysis.threw

----------------------------------------------------------------------------
(* mcp-server/tools/simulate and components/dashboard/health-cards *)

\* computeHealthFromDistribution: Object.values of the 24 hour keys of the cloned
\* byHour, then the statements of computeEnhancedStats
computeHealthFromDistribution(hourlyCounts) ==
    computeHealthMetrics([h \in Hours |-> hourlyCounts[h]])

\* hourlyCounts of computeHealthFromTasks: 1 per task and run hour within 0..23
TaskHourCounts(taskList) ==
    [h \in Hours |-> SeqSum([i \in 1..Len(taskList) |-> CountIn(taskList[i].runHours, h)])]

\* computeHealthFromTasks: the same statements over its own hourlyCounts
computeHealthFromTasks(taskList) == computeHealthMetrics(TaskHourCounts(taskList))

RECURSIVE RemoveRuns(_, _)
\* for (const h of task.runHours) proposedDist[h] = Math.max(0, (proposedDist[h] || 0) - 1)
RemoveRuns(dist, runHours) ==
    IF runHours = <<>> THEN dist
    ELSE RemoveRuns([dist EXCEPT ![Head(runHours)] = IF @ - 1 < 0 THEN 0 ELSE @ - 1], Tail(runHours))

RECURSIVE MoveTasks(_, _, _)
\* the loop over tasksToMove once no task is hourly: remove from the current
\* hours, add 1 at the target hour
MoveTasks(dist, tasksToMove, targetHour) ==
    IF tasksToMove = <<>> THEN dist
    ELSE MoveTasks([RemoveRuns(dist, Head(tasksToMove).runHours) EXCEPT ![targetHour] = @ + 1],
                   Tail(tasksToMove), targetHour)

\* what simulate_move keeps of a call: the arguments it arrived with, whether
\* getAnalysis has returned to it (ran), how it then answered ("ok", "notFound",
\* "hourly") and the distribution and metrics it reports
NoSim ==
    [ran |-> FALSE, taskIds |-> {}, targetHour |-> 0, outcome |-> "",
     proposedDist |-> [h \in Hours |-> 0], currentMetrics |-> NoLoadMetrics, proposedMetrics |-> NoLoadMetrics]

\* the simulate_move handler on the analysis getAnalysis returned
simulate_move(data, taskIds, targetHour) ==
    LET tasksToMove == SelectSeq(data.details, LAMBDA t : t.id \in taskIds)
        notFound == {id \in taskIds : \A i \in 1..Len(tasksToMove) : tasksToMove[i].id # id}
        proposedDist == MoveTasks(data.byHour, tasksToMove, targetHour)
        called == [NoSim EXCEPT !.ran = TRUE, !.taskIds = taskIds, !.targetHour = targetHour]
    IN IF notFound # {} THEN [called EXCEPT !.outcome = "notFound"]
       ELSE IF \E i \in 1..Len(tasksToMove) : tasksToMove[i].isHourly
       THEN [called EXCEPT !.outcome = "hourly"]
       ELSE [called EXCEPT !.outcome = "ok",
                           !.proposedDist = proposedDist,
                           !.currentMetrics = data.enhancedStats,
                           !.proposedMetrics = computeHealthFromDistribution(proposedDist)]

\* HealthCards before data has loaded renders no metrics
NoCards == [rendered |-> FALSE, enhancedStats |-> NoLoadMetrics]

\* HealthCards: computeHealthFromTasks(tasks) when the page passes a task list,
\* which it always does (the filtered list, the full list when no filter is set)
HealthCards(taskList) == [rendered |-> TRUE, enhancedStats |-> computeHealthFromTasks(taskList)]

----------------------------------------------------------------------------
(* stores/batch-store *)

ItemIds == 1..MaxItems

\* crypto.randomUUID(): an id no item of the plan carries
FreshId(plan) == CHOOSE id \in ItemIds : \A i \in 1..Len(plan) : plan[i].id # id

NewItem(plan, task) ==
    [id |-> FreshId(plan),
     taskId |-> task.id,
     currentSchedule |-> task.schedule,
     newSchedule |-> task.schedule,
     taskDays |-> task.taskDays,
     runHours |-> task.runHours,
     newRunHours |-> task.runHours]

RECURSIVE FilterOutId(_, _)
FilterOutId(plan, id) ==
    IF plan = <<>> THEN <<>>
    ELSE (IF Head(plan).id # id THEN <<Head(plan)>> ELSE <<>>) \o FilterOutId(Tail(plan), id)

WithSchedule(item, schedule) ==
    [item EXCEPT !.newSchedule = schedule, !.newRunHours = computeRunHours(schedule)]

addItem_NoCheck(task) ==
    /\ Len(items) < MaxItems
    /\ items' = Append(items, NewItem(items, task))
    /\ isExpanded' = TRUE

\* the plan grows up to MaxItems items; adding a task it already holds returns early
addItem(task) ==
    IF \E i \in 1..Len(items) : items[i].taskId = task.id
    THEN UNCHANGED storeVars
    ELSE /\ Len(items) < MaxItems
         /\ items' = Append(items, NewItem(items, task))
         /\ isExpanded' = TRUE

removeItem(id) ==
    /\ items' = FilterOutId(items, id)
    /\ isExpanded' = (Len(items') > 0)

updateItemSchedule(id, schedule) ==
    /\ items' = [i \in 1..Len(items) |->
                    IF items[i].id = id THEN WithSchedule(items[i], schedule) ELSE items[i]]
    /\ UNCHANGED isExpanded

setAllSchedules(schedule) ==
    /\ items' = [i \in 1..Len(items) |-> WithSchedule(items[i], schedule)]
    /\ UNCHANGED isExpanded

setSchedulesByIds(ids, schedule) ==
    /\ items' = [i \in 1..Len(items) |->
                    IF items[i].id \in ids THEN WithSchedule(items[i], schedule) ELSE items[i]]
    /\ UNCHANGED isExpanded

clearAll ==
    /\ items' = <<>>
    /\ isExpanded' = FALSE

toggleExpanded ==
    /\ isExpanded' = ~isExpanded
    /\ UNCHANGED items

----------------------------------------------------------------------------
(* lib/tableau-client and app/api/reschedule/route *)

\* a response of the route: status 0 with thrown = TRUE is an exception that leaves
\* POST without a Response
NoSummary == [total |-> 0, succeeded |-> 0, failed |-> 0]

NoResponse ==
    [status |-> 0, thrown |-> FALSE, code |-> "", success |-> FALSE, results |-> <<>>, summary |-> NoSummary]

apiErrorResponse(status, code) == [NoResponse EXCEPT !.status = status, !.code = code]

Thrown(message) == [NoResponse EXCEPT !.thrown = TRUE, !.code = message]

\* an entry of the trace of calls on the Tableau client: kind is "signIn", "update",
\* "sleep" or "signOut", idx the position of the change, arg the HTTP status of an
\* update, the milliseconds of a sleep, and for a signOut 1 when it sent its
\* request to Tableau and 0 when it returned at once
Call(kind, idx, arg) == [kind |-> kind, idx |-> idx, arg |-> arg]

\* answers of the Tableau server to a task update; 0 is a fetch that rejects
NetworkError == 0
UpdateStatuses == {204, 404, 429, 503, NetworkError}

\* updateExtractRefreshTask: statusCode is absent (0) on success and on a network error
UpdateResult(taskId, status) ==
    [taskId |-> taskId, success |-> status \in 200..299,
     statusCode |-> IF status \in 200..299 THEN 0 ELSE status]

\* updateWithRetry returns the result of this attempt instead of trying again
ReturnsResult(result, attemptNo) ==
    \/ result.success
    \/ result.statusCode = 0
    \/ (result.statusCode # 429 /\ result.statusCode < 500)
    \/ attemptNo >= 3

\* Math.pow(2, attempt - 1) * 1000
BackoffMs(attemptNo) == (2 ^ (attemptNo - 1)) * 1000

\* results.filter((r) => r.success).length and results.filter((r) => !r.success).length
Succeeded(res) == Cardinality({i \in 1..Len(res) : res[i].success})

Failed_None(res) == 0

Failed(res) == Cardinality({i \in 1..Len(res) : ~res[i].success})

RescheduleResponseOf(res) ==
    [status |-> 200, thrown |-> FALSE, code |-> "",
     success |-> Failed(res) = 0,
     results |-> res,
     summary |-> [total |-> Len(res),
                  succeeded |-> Succeeded(res),
                  failed |-> Failed(res)]]

ShouldRevalidate_Always(succeeded) == TRUE

\* if (succeeded > 0) revalidateTag("tableau", "max")
ShouldRevalidate(succeeded) == succeeded > 0

ClientSignOutCalls_Never(creds) == <<>>

\* TableauClient.signOut as the route's finally calls it: with credentials it sends
\* the sign-out request to Tableau, without it returns at once
ClientSignOutCalls(creds) == <<Call("signOut", 0, IF creds THEN 1 ELSE 0)>>

RouteIdle ==
    /\ request = [json |-> FALSE, changes |-> <<>>]
    /\ env = FALSE
    /\ pc = "idle"
    /\ credentials = FALSE
    /\ results = <<>>
    /\ attempt = 1
    /\ log = <<>>
    /\ revalidated = FALSE
    /\ response = NoResponse

----------------------------------------------------------------------------
(* mcp-server/cache and mcp-server/tableau-service *)

McpCalls == 1..MaxCalls

\* the Map entry under "analysis": data is the server version the cached analysis
\* was fetched at, expired whether Date.now() has passed expiresAt
NoEntry == [has |-> FALSE, data |-> 0, expired |-> FALSE]
Entry(data) == [has |-> TRUE, data |-> data, expired |-> FALSE]

\* a tool call: tool is "analysis", "simulate" or "reschedule"; pc is "idle",
\* "signIn", "fetch", "details", "resolve", "update", "return" or "done"; floor is
\* the newest invalidated update when the call arrived; error whether the tool
\* answered isError
IdleCall == [tool |-> "", pc |-> "idle", floor |-> 0, data |-> 0, error |-> FALSE]

\* const cached = store.get(key); cached && Date.now() < cached.expiresAt
CacheHit == cacheStore.has /\ ~cacheStore.expired

McpIdle ==
    /\ mcpClient = FALSE
    /\ authenticated = FALSE
    /\ cacheStore = NoEntry
    /\ serverVersion = 0
    /\ invalidatedAt = 0
    /\ signIns = 0
    /\ toolCalls = [c \in McpCalls |-> IdleCall]
    /\ running = FALSE
    /\ signingOut = FALSE

\* getClient up to its first await. Without a client it calls createTableauClient(),
\* which throws when a Tableau environment variable is missing: no client is kept,
\* nothing is sent and the call ends in error. With a client it starts a sign-in
\* when the authenticated flag is not set; next is where the caller goes on
getClient(c, tool, next) ==
    IF ~mcpClient /\ ~env
    THEN /\ mcpClient' = mcpClient
         /\ signIns' = signIns
         /\ toolCalls' = [toolCalls EXCEPT ![c] = [@ EXCEPT !.tool = tool, !.pc = "done", !.floor = invalidatedAt,
                                                        !.error = TRUE]]
    ELSE /\ mcpClient' = TRUE
         /\ IF ~authenticated
            THEN /\ signIns' = signIns + 1
                 /\ toolCalls' = [toolCalls EXCEPT ![c] = [@ EXCEPT !.tool = tool, !.pc = "signIn",
                                                                !.floor = invalidatedAt]]
            ELSE /\ signIns' = signIns
                 /\ toolCalls' = [toolCalls EXCEPT ![c] = [@ EXCEPT !.tool = tool, !.pc = next,
                                                                !.floor = invalidatedAt]]

----------------------------------------------------------------------------
(* components/batch/apply-dialog *)

\* useState: state is "confirm", "loading" or "results"; captured is the items
\* array handleApply closed over; hasResults whether setResults got a response
DialogClosed == [state |-> "confirm", captured |-> <<>>, hasResults |-> FALSE]

\* JSON.stringify({ changes: items.map(...) })
ChangesOf(plan) == [i \in 1..Len(plan) |-> [taskId |-> plan[i].taskId, schedule |-> plan[i].newSchedule]]

SucceededIds_All(data) == {data.results[i].taskId : i \in 1..Len(data.results)}

\* new Set(data.results.filter((r) => r.success).map((r) => r.taskId))
SucceededIds(data) == {data.results[i].taskId : i \in {j \in 1..Len(data.results) : data.results[j].success}}

RECURSIVE RemoveSucceeded(_, _, _)
\* for (const item of items) if (succeededIds.has(item.taskId)) removeItem(item.id)
RemoveSucceeded(plan, captured, succeededIds) ==
    IF captured = <<>> THEN plan
    ELSE RemoveSucceeded(IF Head(captured).taskId \in succeededIds
                         THEN FilterOutId(plan, Head(captured).id) ELSE plan,
                         Tail(captured), succeededIds)

----------------------------------------------------------------------------
(* Inputs *)

Sec(h, m) == <<h, m, 0>>

\* raw task records of the shapes the Tableau API returns, one with its frequency
\* in another casing, plus records whose start time is missing or unreadable
Catalogue ==
    { RawTask("d8", "Daily", Sec(8, 0), Null, <<>>),
      RawTask("d4", "Daily", Sec(8, 0), Sec(20, 0),
              <<Interval(4, 0, "", ""), Interval(0, 0, "Monday", ""), Interval(0, 0, "Friday", "")>>),
      RawTask("dw", "Daily", Sec(22, 0), Sec(2, 0), <<Interval(2, 0, "", "")>>),
      RawTask("h7", "hOURLY", Sec(7, 0), Sec(10, 0), <<Interval(1, 0, "", "")>>),
      RawTask("hw", "Hourly", Sec(23, 30), Sec(1, 30),
              <<Interval(1, 0, "", ""), Interval(0, 0, "Sunday", "")>>),
      RawTask("w9", "Weekly", Sec(9, 0), Null,
              <<Interval(0, 0, "Monday", ""), Interval(0, 0, "Wednesday", "")>>),
      RawTask("m15", "Monthly", Sec(6, 0), Null,
              <<Interval(0, 0, "", "15"), Interval(0, 0, "", "LastDay")>>),
      RawTask("m31", "Monthly", Sec(6, 0), Null, <<Interval(0, 0, "", "31")>>),
      RawTask("m2mon", "Monthly", Sec(11, 5), Null, <<Interval(0, 0, "Monday", "Second")>>),
      RawTask("mlfri", "Monthly", Sec(14, 0), Null, <<Interval(0, 0, "Friday", "Last")>>),
      RawTask("m5fri", "Monthly", Sec(14, 0), Null, <<Interval(0, 0, "Friday", "Fifth")>>),
      RawTask("nostart", "Daily", Null, Null, <<>>),
      RawTask("badd", "Daily", <<NaN>>, Null, <<>>),
      RawTask("badh", "Hourly", <<NaN>>, Sec(10, 0), <<Interval(1, 0, "", "")>>) }

RECURSIVE SeqsUpTo(_, _)
SeqsUpTo(S, n) ==
    IF n = 0 THEN {<<>>}
    ELSE LET shorter == SeqsUpTo(S, n - 1)
         IN shorter \cup {Append(q, x) : q \in {r \in shorter : Len(r) = n - 1}, x \in S}

TaskLists == SeqsUpTo(Catalogue, MaxTasks)

\* February of a common year and of a leap year, a 30-day month that starts on a
\* Monday, a 31-day month with five Fridays
Clocks == { [year |-> 2026, month |-> 2], [year |-> 2024, month |-> 2],
            [year |-> 2026, month |-> 6], [year |-> 2026, month |-> 5] }

BadDay == [tok |-> "", n |-> 32]

\* ScheduleConfig values handed to buildScheduleXml: every legal shape and the
\* illegal combinations around them
ScheduleInputs ==
    { Schedule(f, st, en, ih, wd, md, ord, mwd) :
        f \in {"Hourly", "Daily", "Weekly", "Monthly", "Biweekly"},
        st \in {Null, <<8, 0>>, <<8, 30>>},
        en \in {Null, <<20, 0>>, <<22, 30, 0>>},
        ih \in {0, 1, 3, 4, 24},
        wd \in {<<>>, <<"Monday", "Friday">>,
                <<"Sunday", "Monday", "Tuesday", "Wednesday", "Thursday", "Friday", "Saturday", "Sunday">>},
        md \in {<<>>, <<MonthDayNum(1), MonthDayNum(15)>>, <<LastDay>>, <<MonthDayNum(15), BadDay>>},
        ord \in {"", "Second", "Last", "Sixth"},
        mwd \in {"", "Monday", "Funday"} }

----------------------------------------------------------------------------
(* Analysis: the refresh-data service runs analyzeScheduledTasks on the fetched tasks *)

InitAnalyze ==
    /\ tasks \in TaskLists
    /\ clock \in Clocks
    /\ analysis = NoAnalysis
    /\ cfg = NoSchedule
    /\ xml = NoXml
    /\ items = <<>>
    /\ isExpanded = FALSE
    /\ RouteIdle
    /\ McpIdle
    /\ dialog = DialogClosed
    /\ sim = NoSim
    /\ cards = NoCards
    /\ staleQueries = {}

Analyze ==
    /\ ~analysis.ran
    /\ analysis' = analyzeScheduledTasks(tasks, clock.year, clock.month)
    /\ UNCHANGED <<tasks, clock, xmlVars, storeVars, routeVars, mcpVars, dialog, sim, cards, staleQueries>>

NextAnalyze == Analyze

SpecAnalyze == InitAnalyze /\ [][NextAnalyze]_vars

----------------------------------------------------------------------------
(* Serialization: buildScheduleXml on one ScheduleConfig *)

InitXml ==
    /\ tasks = <<>>
    /\ clock = [year |-> 2026, month |-> 2]
    /\ analysis = NoAnalysis
    /\ cfg \in ScheduleInputs
    /\ xml = NoXml
    /\ items = <<>>
    /\ isExpanded = FALSE
    /\ RouteIdle
    /\ McpIdle
    /\ dialog = DialogClosed
    /\ sim = NoSim
    /\ cards = NoCards
    /\ staleQueries = {}

BuildXml ==
    /\ xml = NoXml
    /\ xml' = buildScheduleXml(cfg)
    /\ UNCHANGED <<analysisVars, cfg, storeVars, routeVars, mcpVars, dialog, sim, cards, staleQueries>>

NextXml == BuildXml

SpecXml == InitXml /\ [][NextXml]_vars

----------------------------------------------------------------------------
(* Batch planning: the plan kept by the batch store against the analysis that
   useRefreshData holds, which is fetched again while the plan is open *)

\* tasks the scheduler page lists
BatchCatalogue ==
    { RawTask("d8", "Daily", Sec(8, 0), Null, <<>>),
      RawTask("d2", "Daily", Sec(2, 0), Null, <<>>),
      RawTask("m15", "Monthly", Sec(6, 0), Null, <<Interval(0, 0, "", "15")>>) }

BatchTaskLists ==
    { q \in SeqsUpTo(BatchCatalogue, MaxTasks) : \A i, j \in 1..Len(q) : i # j => q[i].id # q[j].id }

\* schedules the editor hands to the store
EditSchedules ==
    { Schedule("Daily", <<8, 0>>, Null, 24, ALL_WEEKDAYS, <<>>, "", ""),
      Schedule("Daily", <<2, 0>>, Null, 24, ALL_WEEKDAYS, <<>>, "", ""),
      Schedule("Monthly", <<2, 0>>, Null, 0, <<>>, <<MonthDayNum(15)>>, "", ""),
      Schedule("Weekly", <<8, 0>>, Null, 0, <<"Monday", "Friday">>, <<>>, "", "") }

BatchClock == [year |-> 2026, month |-> 2]

\* what getCachedAnalysis returns for each task list the server may hold
FetchedAnalysis ==
    [ts \in BatchTaskLists |-> analyzeScheduledTasks(ts, BatchClock.year, BatchClock.month)]

InitBatch ==
    /\ tasks \in BatchTaskLists
    /\ clock = BatchClock
    /\ analysis = FetchedAnalysis[tasks]
    /\ cfg = NoSchedule
    /\ xml = NoXml
    /\ items = <<>>
    /\ isExpanded = FALSE
    /\ RouteIdle
    /\ McpIdle
    /\ dialog = DialogClosed
    /\ sim = NoSim
    /\ cards = NoCards
    /\ staleQueries = {}

\* the query refetches: the server's task list may have changed meanwhile
Refetch ==
    /\ \E ts \in BatchTaskLists :
          /\ tasks' = ts
          /\ analysis' = FetchedAnalysis[ts]
    /\ UNCHANGED <<clock, xmlVars, storeVars, routeVars, mcpVars, dialog, sim, cards, staleQueries>>

AddItem ==
    /\ \E i \in 1..Len(analysis.details) : addItem(analysis.details[i])
    /\ UNCHANGED <<analysisVars, xmlVars, routeVars, mcpVars, dialog, sim, cards, staleQueries>>

RemoveItem ==
    /\ \E i \in 1..Len(items) : removeItem(items[i].id)
    /\ UNCHANGED <<analysisVars, xmlVars, routeVars, mcpVars, dialog, sim, cards, staleQueries>>

UpdateItemSchedule ==
    /\ \E i \in 1..Len(items) : \E schedule \in EditSchedules : updateItemSchedule(items[i].id, schedule)
    /\ UNCHANGED <<analysisVars, xmlVars, routeVars, mcpVars, dialog, sim, cards, staleQueries>>

SetAllSchedules ==
    /\ Len(items) > 0
    /\ \E schedule \in EditSchedules : setAllSchedules(schedule)
    /\ UNCHANGED <<analysisVars, xmlVars, routeVars, mcpVars, dialog, sim, cards, staleQueries>>

SetSchedulesByIds ==
    /\ Len(items) > 0
    /\ \E ids \in SUBSET ItemIds : \E schedule \in EditSchedules : setSchedulesByIds(ids, schedule)
    /\ UNCHANGED <<analysisVars, xmlVars, routeVars, mcpVars, dialog, sim, cards, staleQueries>>

ClearAll ==
    /\ clearAll
    /\ UNCHANGED <<analysisVars, xmlVars, routeVars, mcpVars, dialog, sim, cards, staleQueries>>

ToggleExpanded ==
    /\ toggleExpanded
    /\ UNCHANGED <<analysisVars, xmlVars, routeVars, mcpVars, dialog, sim, cards, staleQueries>>

NextBatch ==
    \/ Refetch
    \/ AddItem
    \/ RemoveItem
    \/ UpdateItemSchedule
    \/ SetAllSchedules
    \/ SetSchedulesByIds
    \/ ClearAll
    \/ ToggleExpanded

SpecBatch == InitBatch /\ [][NextBatch]_vars

----------------------------------------------------------------------------
(* Rescheduling: one POST /api/reschedule request against the Tableau server *)

Change(taskId, schedule) == [taskId |-> taskId, schedule |-> schedule]

\* changes a client may send: two the serializer accepts, one that passes the
\* request schema with end minutes unlike the start minutes, one the schema rejects
RequestChanges ==
    { Change("t1", Schedule("Daily", <<8, 0>>, Null, 24, <<>>, <<>>, "", "")),
      Change("t2", Schedule("Weekly", <<9, 30>>, Null, 24, <<"Monday">>, <<>>, "", "")),
      Change("t3", Schedule("Hourly", <<7, 0>>, <<10, 30>>, 1, <<>>, <<>>, "", "")),
      Change("t4", Schedule("Daily", <<8, 0>>, <<20, 0>>, 3, <<>>, <<>>, "", "")) }

Requests ==
    {[json |-> FALSE, changes |-> <<>>]}
        \cup {[json |-> TRUE, changes |-> q] : q \in SeqsUpTo(RequestChanges, MaxChanges)}

InitReschedule ==
    /\ tasks = <<>>
    /\ clock = [year |-> 2026, month |-> 2]
    /\ analysis = NoAnalysis
    /\ cfg = NoSchedule
    /\ xml = NoXml
    /\ items = <<>>
    /\ isExpanded = FALSE
    /\ request \in Requests
    /\ env \in BOOLEAN
    /\ pc = "start"
    /\ credentials = FALSE
    /\ results = <<>>
    /\ attempt = 1
    /\ log = <<>>
    /\ revalidated = FALSE
    /\ response = NoResponse
    /\ McpIdle
    /\ dialog = DialogClosed
    /\ sim = NoSim
    /\ cards = NoCards
    /\ staleQueries = {}

\* POST up to createTableauClient(): body parsing, the request schema, the XML payloads
Receive ==
    /\ pc = "start"
    /\ IF ~request.json
       THEN response' = apiErrorResponse(400, "invalid_json") /\ pc' = "done"
       ELSE IF ~rescheduleRequestSchema(request.changes)
       THEN response' = apiErrorResponse(400, "validation_failed") /\ pc' = "done"
       ELSE IF \E i \in 1..Len(request.changes) : buildScheduleXml(request.changes[i].schedule).threw
       THEN response' = Thrown("XML generation failed") /\ pc' = "done"
       ELSE IF ~env
       THEN response' = Thrown("Missing required Tableau environment variables") /\ pc' = "done"
       ELSE response' = response /\ pc' = "signIn"
    /\ UNCHANGED <<analysisVars, xmlVars, storeVars, mcpVars, dialog, sim, request, env, credentials, results, attempt, log,
                   revalidated, cards, staleQueries>>

\* await client.signIn(): a refused sign-in throws into the route's catch
SignIn ==
    /\ pc = "signIn"
    /\ log' = Append(log, Call("signIn", 0, 0))
    /\ \E ok \in BOOLEAN :
          IF ok
          THEN credentials' = TRUE /\ pc' = "update" /\ response' = response
          ELSE credentials' = credentials /\ pc' = "signOut"
               /\ response' = apiErrorResponse(500, "internal_error")
    /\ UNCHANGED <<analysisVars, xmlVars, storeVars, mcpVars, dialog, sim, request, env, results, attempt, revalidated, cards, staleQueries>>

\* one updateExtractRefreshTask call of updateWithRetry inside batchUpdateTasks, with
\* the sleep that follows it
Update ==
    /\ pc = "update"
    /\ \E status \in UpdateStatuses :
          LET idx == Len(results) + 1
              result == UpdateResult(request.changes[idx].taskId, status)
              called == Append(log, Call("update", idx, status))
          IN IF ReturnsResult(result, attempt)
             THEN /\ results' = Append(results, result)
                  /\ attempt' = 1
                  /\ log' = IF idx - 1 < Len(request.changes) - 1
                            THEN Append(called, Call("sleep", idx, 150)) ELSE called
                  /\ pc' = IF idx = Len(request.changes) THEN "respond" ELSE "update"
             ELSE /\ results' = results
                  /\ attempt' = attempt + 1
                  /\ log' = Append(called, Call("sleep", idx, BackoffMs(attempt)))
                  /\ pc' = pc
    /\ UNCHANGED <<analysisVars, xmlVars, storeVars, mcpVars, dialog, sim, request, env, credentials, revalidated, response, cards, staleQueries>>

\* await client.batchUpdateTasks(xmlChanges) rejects before any update is answered
\* and the route's catch answers 500. TableauClient.batchUpdateTasks itself turns
\* every refused or failed update into a result; the rejection is the one the
\* route's test hands to the catch ("Connection lost")
UpdateThrows ==
    /\ pc = "update"
    /\ results = <<>>
    /\ attempt = 1
    /\ response' = apiErrorResponse(500, "internal_error")
    /\ pc' = "signOut"
    /\ UNCHANGED <<analysisVars, xmlVars, storeVars, mcpVars, dialog, sim, request, env, credentials, results, attempt, log,
                   revalidated, cards, staleQueries>>

\* the response body and revalidateTag after batchUpdateTasks returned
Respond ==
    /\ pc = "respond"
    /\ response' = RescheduleResponseOf(results)
    /\ revalidated' = ShouldRevalidate(Succeeded(results))
    /\ pc' = "signOut"
    /\ UNCHANGED <<analysisVars, xmlVars, storeVars, mcpVars, dialog, sim, request, env, credentials, results, attempt, log, cards, staleQueries>>

\* finally { await client.signOut() }
SignOut ==
    /\ pc = "signOut"
    /\ log' = log \o ClientSignOutCalls(credentials)
    /\ credentials' = FALSE
    /\ pc' = "done"
    /\ UNCHANGED <<analysisVars, xmlVars, storeVars, mcpVars, dialog, sim, request, env, results, attempt, revalidated, response, cards, staleQueries>>

NextReschedule ==
    \/ Receive
    \/ SignIn
    \/ Update
    \/ UpdateThrows
    \/ Respond
    \/ SignOut

SpecReschedule == InitReschedule /\ [][NextReschedule]_vars

\* every await of the handler settles and every timer fires, so a request that
\* can take a step takes one
SpecRescheduleFair == SpecReschedule /\ WF_vars(NextReschedule)

----------------------------------------------------------------------------
(* The MCP server: tool toolCalls that interleave at their awaits *)

\* tasks the server lists: once a day, every 4 hours on two weekdays, weekly on
\* two weekdays, hourly in a window, monthly
SimCatalogue ==
    { RawTask("d8", "Daily", Sec(8, 0), Null, <<>>),
      RawTask("d4", "Daily", Sec(8, 0), Sec(20, 0),
              <<Interval(4, 0, "", ""), Interval(0, 0, "Monday", ""), Interval(0, 0, "Friday", "")>>),
      RawTask("w9", "Weekly", Sec(9, 0), Null,
              <<Interval(0, 0, "Monday", ""), Interval(0, 0, "Wednesday", "")>>),
      RawTask("h7", "Hourly", Sec(7, 0), Sec(10, 0), <<Interval(1, 0, "", "")>>),
      RawTask("m15", "Monthly", Sec(6, 0), Null, <<Interval(0, 0, "", "15")>>) }

\* target hours a call may name: the day's first and last hour, an hour no task
\* runs at, and hours tasks of the catalogue run at
SimTargetHours == {0, 2, 8, 9, 20, 23}

SimTaskLists ==
    { q \in SeqsUpTo(SimCatalogue, MaxTasks) :
        Len(q) >= 1 /\ \A i, j \in 1..Len(q) : i # j => q[i].id # q[j].id }

\* what the fetcher's analyzeScheduledTasks returns for each task list the server
\* may hold
ServerAnalysis ==
    [ts \in SimTaskLists \cup {<<>>} |-> analyzeScheduledTasks(ts, BatchClock.year, BatchClock.month)]

InitMcp ==
    /\ tasks = <<>>
    /\ clock = BatchClock
    /\ analysis = NoAnalysis
    /\ cfg = NoSchedule
    /\ xml = NoXml
    /\ items = <<>>
    /\ isExpanded = FALSE
    /\ request = [json |-> FALSE, changes |-> <<>>]
    /\ env \in BOOLEAN
    /\ pc = "idle"
    /\ credentials = FALSE
    /\ results = <<>>
    /\ attempt = 1
    /\ log = <<>>
    /\ revalidated = FALSE
    /\ response = NoResponse
    /\ mcpClient = FALSE
    /\ authenticated = FALSE
    /\ cacheStore = NoEntry
    /\ serverVersion = 0
    /\ invalidatedAt = 0
    /\ signIns = 0
    /\ toolCalls = [c \in McpCalls |-> IdleCall]
    /\ running = TRUE
    /\ signingOut = FALSE
    /\ dialog = DialogClosed
    /\ sim = NoSim
    /\ cards = NoCards
    /\ staleQueries = {}

\* schedules a reschedule_task call may carry
McpSchedules ==
    { Schedule("Daily", <<8, 0>>, Null, 24, <<>>, <<>>, "", ""),
      Schedule("Hourly", <<7, 0>>, <<10, 30>>, 1, <<>>, <<>>, "", "") }

\* a tool that reads the analysis arrives: getAnalysis -> getCached, up to the
\* first await of the fetcher
StartAnalysis(c) ==
    /\ running
    /\ toolCalls[c].pc = "idle"
    /\ IF CacheHit
       THEN /\ toolCalls' = [toolCalls EXCEPT ![c] = [@ EXCEPT !.tool = "analysis", !.pc = "done",
                                                      !.floor = invalidatedAt, !.data = cacheStore.data]]
            /\ UNCHANGED <<mcpClient, signIns>>
       ELSE getClient(c, "analysis", "fetch")
    /\ UNCHANGED <<analysisVars, xmlVars, storeVars, dialog, sim, routeVars, authenticated, cacheStore, serverVersion,
                   invalidatedAt, running, signingOut, cards, staleQueries>>

\* reschedule_task arrives: buildScheduleXml, then getTableauClient
StartReschedule(c) ==
    /\ running
    /\ toolCalls[c].pc = "idle"
    /\ \E schedule \in McpSchedules :
          IF buildScheduleXml(schedule).threw
          THEN /\ toolCalls' = [toolCalls EXCEPT ![c] = [@ EXCEPT !.tool = "reschedule", !.pc = "done",
                                                         !.floor = invalidatedAt, !.error = TRUE]]
               /\ UNCHANGED <<mcpClient, signIns>>
          ELSE getClient(c, "reschedule", "update")
    /\ UNCHANGED <<analysisVars, xmlVars, storeVars, dialog, sim, routeVars, authenticated, cacheStore, serverVersion,
                   invalidatedAt, running, signingOut, cards, staleQueries>>

\* await client.signIn() settles: authenticated = true, or the rejection ends the call
SignedIn(c) ==
    /\ running
    /\ toolCalls[c].pc = "signIn"
    /\ \E ok \in BOOLEAN :
          IF ok
          THEN /\ authenticated' = TRUE
               /\ toolCalls' = [toolCalls EXCEPT ![c].pc = IF toolCalls[c].tool = "reschedule" THEN "update" ELSE "fetch"]
          ELSE /\ authenticated' = authenticated
               /\ toolCalls' = [toolCalls EXCEPT ![c] = [@ EXCEPT !.pc = "done", !.error = TRUE]]
    /\ UNCHANGED <<analysisVars, xmlVars, storeVars, dialog, sim, routeVars, mcpClient, cacheStore, serverVersion,
                   invalidatedAt, signIns, running, signingOut, cards, staleQueries>>

\* await tc.getExtractRefreshTasks() settles with the schedules the server holds now
FetchTasks(c) ==
    /\ running
    /\ toolCalls[c].pc = "fetch"
    /\ \E ok \in BOOLEAN :
          toolCalls' = [toolCalls EXCEPT ![c] = IF ok THEN [@ EXCEPT !.pc = "details", !.data = serverVersion]
                                        ELSE [@ EXCEPT !.pc = "done", !.error = TRUE]]
    /\ UNCHANGED <<analysisVars, xmlVars, storeVars, dialog, sim, routeVars, mcpClient, authenticated, cacheStore,
                   serverVersion, invalidatedAt, signIns, running, signingOut, cards, staleQueries>>

\* await tc.resolveItemDetails(tasks) settles: getWorkbookDetails and
\* getDatasourceDetails catch a refused request and return null, so it never rejects
ResolveDetails(c) ==
    /\ running
    /\ toolCalls[c].pc = "details"
    /\ toolCalls' = [toolCalls EXCEPT ![c].pc = "resolve"]
    /\ UNCHANGED <<analysisVars, xmlVars, storeVars, dialog, sim, routeVars, mcpClient, authenticated, cacheStore,
                   serverVersion, invalidatedAt, signIns, running, signingOut, cards, staleQueries>>

\* getAnalysis rejects: nothing is stored and the tool's catch answers isError
Rejected(c) ==
    /\ toolCalls' = [toolCalls EXCEPT ![c] = [@ EXCEPT !.pc = "done", !.error = TRUE]]
    /\ UNCHANGED <<cacheStore, analysis, sim>>

\* the fetcher returned data: store.set(key, ...), and the tool goes on with it;
\* simulate_move computes its answer from it
Stored(c, data) ==
    /\ cacheStore' = Entry(toolCalls[c].data)
    /\ analysis' = data
    /\ sim' = IF toolCalls[c].tool = "simulate" THEN simulate_move(data, sim.taskIds, sim.targetHour) ELSE sim
    /\ toolCalls' = [toolCalls EXCEPT ![c].pc = "done"]

\* return analyzeScheduledTasks(tasksWithFailures, timezone), which may throw
Analyzed(c, data) == IF data.threw THEN Rejected(c) ELSE Stored(c, data)

\* await tc.resolveFailureMessages(...) settles. Its job-history request answered:
\* the fetcher analyzes the tasks and returns, store.set(key, ...) and return data.
\* The request refused: makeRequest throws, getAnalysis rejects and nothing is stored
StoreAnalysis(c) ==
    /\ running
    /\ toolCalls[c].pc = "resolve"
    /\ \E ok \in BOOLEAN :
          IF ok
          THEN Analyzed(c, ServerAnalysis[tasks])
          ELSE Rejected(c)
    /\ UNCHANGED <<tasks, clock, xmlVars, storeVars, dialog, routeVars, mcpClient, authenticated, serverVersion,
                   invalidatedAt, signIns, running, signingOut, cards, staleQueries>>

\* the Tableau server handles the update of batchUpdateTasks: applied or refused
ApplyUpdate(c) ==
    /\ running
    /\ toolCalls[c].pc = "update"
    /\ \E ok \in BOOLEAN :
          /\ serverVersion' = IF ok THEN serverVersion + 1 ELSE serverVersion
          /\ toolCalls' = [toolCalls EXCEPT ![c] = [@ EXCEPT !.pc = "return", !.data = serverVersion', !.error = ~ok]]
    /\ UNCHANGED <<analysisVars, xmlVars, storeVars, dialog, sim, routeVars, mcpClient, authenticated, cacheStore,
                   invalidatedAt, signIns, running, signingOut, cards, staleQueries>>

\* batchUpdateTasks returns: invalidateCache() and the tool's answer
ReturnUpdate(c) ==
    /\ running
    /\ toolCalls[c].pc = "return"
    /\ cacheStore' = NoEntry
    /\ invalidatedAt' = IF toolCalls[c].data > invalidatedAt THEN toolCalls[c].data ELSE invalidatedAt
    /\ toolCalls' = [toolCalls EXCEPT ![c].pc = "done"]
    /\ UNCHANGED <<analysisVars, xmlVars, storeVars, dialog, sim, routeVars, mcpClient, authenticated, serverVersion,
                   signIns, running, signingOut, cards, staleQueries>>

\* the cache entry outlives its TTL
Expire ==
    /\ running
    /\ CacheHit
    /\ cacheStore' = [cacheStore EXCEPT !.expired = TRUE]
    /\ UNCHANGED <<analysisVars, xmlVars, storeVars, dialog, sim, routeVars, mcpClient, authenticated, serverVersion,
                   invalidatedAt, signIns, toolCalls, running, signingOut, cards, staleQueries>>

\* SIGINT/SIGTERM: handleShutdown runs shutdown() up to its await. With a client
\* that is authenticated it sends the sign-out and waits, the process still up;
\* otherwise shutdown() returns at once and process.exit follows. A second signal
\* during the wait finds both flags still set and waits as well
Shutdown ==
    /\ running
    /\ IF mcpClient /\ authenticated
       THEN signingOut' = TRUE /\ running' = running
       ELSE signingOut' = signingOut /\ running' = FALSE
    /\ UNCHANGED <<analysisVars, xmlVars, storeVars, dialog, sim, routeVars, mcpClient, authenticated, cacheStore,
                   serverVersion, invalidatedAt, signIns, toolCalls, cards, staleQueries>>

\* await client.signOut() settles, answered or rejected (the catch swallows it):
\* authenticated = false, client = null, then process.exit
SignedOut ==
    /\ running
    /\ signingOut
    /\ authenticated' = FALSE
    /\ mcpClient' = FALSE
    /\ signingOut' = FALSE
    /\ running' = FALSE
    /\ UNCHANGED <<analysisVars, xmlVars, storeVars, dialog, sim, routeVars, cacheStore, serverVersion, invalidatedAt,
                   signIns, toolCalls, cards, staleQueries>>

NextMcp ==
    \/ \E c \in McpCalls : StartAnalysis(c)
    \/ \E c \in McpCalls : StartReschedule(c)
    \/ \E c \in McpCalls : SignedIn(c)
    \/ \E c \in McpCalls : FetchTasks(c)
    \/ \E c \in McpCalls : ResolveDetails(c)
    \/ \E c \in McpCalls : StoreAnalysis(c)
    \/ \E c \in McpCalls : ApplyUpdate(c)
    \/ \E c \in McpCalls : ReturnUpdate(c)
    \/ Expire
    \/ Shutdown
    \/ SignedOut

SpecMcp == InitMcp /\ [][NextMcp]_vars

----------------------------------------------------------------------------
(* Applying a plan: ApplyDialog.handleApply posts the plan to /api/reschedule and
   prunes the batch store; the dialog is modal while the request is loading *)

\* schedules the items of a plan carry: one the serializer accepts, one that
\* passes the request schema only, one the schema rejects
ApplySchedules ==
    { Schedule("Daily", <<2, 0>>, Null, 24, ALL_WEEKDAYS, <<>>, "", ""),
      Schedule("Hourly", <<7, 0>>, <<10, 30>>, 1, <<>>, <<>>, "", ""),
      Schedule("Daily", <<8, 0>>, <<20, 0>>, 3, <<>>, <<>>, "", "") }

\* the task list the page has loaded when the plan is made
ApplyTaskList == CHOOSE ts \in BatchTaskLists : Len(ts) = MaxTasks

ApplyTasks == FetchedAnalysis[ApplyTaskList].details

RECURSIVE PlanOf(_, _)
\* the plan after addItem and updateItemSchedule for each task of q in turn
PlanOf(q, schedules) ==
    IF q = <<>> THEN <<>>
    ELSE LET n == Len(q)
             before == PlanOf(SubSeq(q, 1, n - 1), schedules)
         IN Append(before, WithSchedule(NewItem(before, q[n]), schedules[n]))

ApplyPlans ==
    { PlanOf(q, schedules) :
        q \in {r \in SeqsUpTo(Range(ApplyTasks), MaxItems) :
                  Len(r) >= 1 /\ \A i, j \in 1..Len(r) : i # j => r[i].id # r[j].id},
        schedules \in [1..MaxItems -> ApplySchedules] }

InitApply ==
    /\ tasks = ApplyTaskList
    /\ clock = BatchClock
    /\ analysis = FetchedAnalysis[tasks]
    /\ cfg = NoSchedule
    /\ xml = NoXml
    /\ items \in ApplyPlans
    /\ isExpanded = TRUE
    /\ request = [json |-> FALSE, changes |-> <<>>]
    /\ env \in BOOLEAN
    /\ pc = "idle"
    /\ credentials = FALSE
    /\ results = <<>>
    /\ attempt = 1
    /\ log = <<>>
    /\ revalidated = FALSE
    /\ response = NoResponse
    /\ McpIdle
    /\ dialog = DialogClosed
    /\ sim = NoSim
    /\ cards = NoCards
    /\ staleQueries = {}

\* handleApply up to await fetch("/api/reschedule", ...), which starts a new run of
\* the route handler; the Apply button is in the drawer, which renders nothing for
\* an empty plan
StartApply ==
    /\ dialog.state = "confirm"
    /\ pc \in {"idle", "done"}
    /\ Len(items) > 0
    /\ dialog' = [state |-> "loading", captured |-> items, hasResults |-> FALSE]
    /\ request' = [json |-> TRUE, changes |-> ChangesOf(items)]
    /\ pc' = "start"
    /\ credentials' = FALSE
    /\ results' = <<>>
    /\ attempt' = 1
    /\ log' = <<>>
    /\ revalidated' = FALSE
    /\ response' = NoResponse
    /\ UNCHANGED <<analysisVars, xmlVars, storeVars, mcpVars, sim, env, cards, staleQueries>>

\* queryClient.invalidateQueries for both keys on any success
InvalidatedBy(data) == IF data.summary.succeeded > 0 THEN {"refresh-data", "time-slots"} ELSE {}

\* handleApply after the response arrived: a body without results (an error answer)
\* throws into the catch, which removes and invalidates nothing. The dialog is
\* rendered by the drawer, which renders nothing for an empty plan: when the last
\* item is removed the dialog unmounts and its state is gone
FinishApply ==
    /\ dialog.state = "loading"
    /\ pc = "done"
    /\ IF response.status = 200
       THEN /\ items' = RemoveSucceeded(items, dialog.captured, SucceededIds(response))
            /\ dialog' = IF Len(items') = 0 THEN DialogClosed
                         ELSE [dialog EXCEPT !.state = "results", !.hasResults = TRUE]
            /\ isExpanded' = IF items' # items THEN Len(items') > 0 ELSE isExpanded
            /\ staleQueries' = staleQueries \cup InvalidatedBy(response)
       ELSE /\ dialog' = [dialog EXCEPT !.state = "results", !.hasResults = FALSE]
            /\ UNCHANGED <<storeVars, staleQueries>>
    /\ UNCHANGED <<analysisVars, xmlVars, mcpVars, sim, routeVars, cards>>

\* an invalidated query fetches again: "refresh-data" brings the analysis of the
\* tasks the server holds now, "time-slots" data the page keeps elsewhere
RefetchInvalidated ==
    /\ \E key \in staleQueries :
          /\ staleQueries' = staleQueries \ {key}
          /\ IF key = "refresh-data"
             THEN \E ts \in BatchTaskLists :
                     /\ tasks' = ts
                     /\ analysis' = FetchedAnalysis[ts]
             ELSE UNCHANGED <<tasks, analysis>>
    /\ UNCHANGED <<clock, xmlVars, storeVars, routeVars, mcpVars, dialog, sim, cards>>

\* handleClose(false) on the mounted dialog: ignored while loading, otherwise
\* back to the confirm state with no results
CloseDialog ==
    /\ Len(items) > 0
    /\ dialog.state # "loading"
    /\ dialog' = DialogClosed
    /\ UNCHANGED <<analysisVars, xmlVars, storeVars, routeVars, mcpVars, sim, cards, staleQueries>>

NextApply ==
    \/ StartApply
    \/ Receive
    \/ SignIn
    \/ Update
    \/ UpdateThrows
    \/ Respond
    \/ SignOut
    \/ FinishApply
    \/ RefetchInvalidated
    \/ CloseDialog

SpecApply == InitApply /\ [][NextApply]_vars

----------------------------------------------------------------------------
(* Editing one item: the schedule editor hands a windowed schedule to
   updateItemSchedule, which stores computeRunHours(schedule) as newRunHours *)

WindowHours == {2, 6, 8, 22}

WindowMinutes == {0, 30}

WindowTimes == {<<h, mi>> : h \in WindowHours, mi \in WindowMinutes}

\* Hourly schedules (interval 1) and Daily schedules with an interval the
\* request schema allows below 24, each with an end time
WindowSchedules ==
    { Schedule(f, st, en, ih, <<>>, <<>>, "", "") :
        f \in {"Hourly", "Daily"}, st \in WindowTimes, en \in WindowTimes, ih \in {1, 2, 4, 6, 8, 12} }
    \ { sc \in { Schedule(f, st, en, ih, <<>>, <<>>, "", "") :
                   f \in {"Hourly", "Daily"}, st \in WindowTimes, en \in WindowTimes,
                   ih \in {1, 2, 4, 6, 8, 12} } :
          (sc.frequency = "Hourly") # (sc.intervalHours = 1) }

InitEdit ==
    /\ tasks \in {q \in BatchTaskLists : Len(q) = 1}
    /\ clock = BatchClock
    /\ analysis = FetchedAnalysis[tasks]
    /\ cfg = NoSchedule
    /\ xml = NoXml
    /\ items = <<NewItem(<<>>, analysis.details[1])>>
    /\ isExpanded = TRUE
    /\ RouteIdle
    /\ McpIdle
    /\ dialog = DialogClosed
    /\ sim = NoSim
    /\ cards = NoCards
    /\ staleQueries = {}

EditSchedule ==
    /\ \E i \in 1..Len(items) : \E schedule \in WindowSchedules : updateItemSchedule(items[i].id, schedule)
    /\ UNCHANGED <<analysisVars, xmlVars, routeVars, mcpVars, dialog, sim, cards, staleQueries>>

NextEdit == EditSchedule

SpecEdit == InitEdit /\ [][NextEdit]_vars

----------------------------------------------------------------------------
(* Monthly calendar: the analysis of one Monthly task in each month of a common
   year and in the February of a leap year *)

CalendarOrdinals == {"First", "Second", "Third", "Fourth", "Fifth", "Last"}

\* Monthly tasks on the N-th occurrence of a weekday
OrdinalTasks ==
    { RawTask("mo", "Monthly", Sec(6, 0), Null, <<Interval(0, 0, JS_DAY_NAMES[w], ord)>>) :
        w \in 1..7, ord \in CalendarOrdinals }

\* day lists of On-Day tasks: days every month has, days only some months have,
\* LastDay alone and next to a numeric day
OnDayLists ==
    { <<"1">>, <<"15">>, <<"28">>, <<"29">>, <<"30">>, <<"31">>, <<"LastDay">>,
      <<"15", "LastDay">>, <<"31", "1">>, <<"29", "30", "LastDay">> }

OnDayTasks ==
    { RawTask("md", "Monthly", Sec(6, 0), Null,
              [i \in 1..Len(days) |-> Interval(0, 0, "", days[i])]) : days \in OnDayLists }

CalendarClocks ==
    {[year |-> 2026, month |-> mo] : mo \in 1..12} \cup {[year |-> 2024, month |-> 2]}

InitCalendar ==
    /\ tasks \in {<<t>> : t \in OrdinalTasks \cup OnDayTasks}
    /\ clock \in CalendarClocks
    /\ analysis = NoAnalysis
    /\ cfg = NoSchedule
    /\ xml = NoXml
    /\ items = <<>>
    /\ isExpanded = FALSE
    /\ RouteIdle
    /\ McpIdle
    /\ dialog = DialogClosed
    /\ sim = NoSim
    /\ cards = NoCards
    /\ staleQueries = {}

NextCalendar == Analyze

SpecCalendar == InitCalendar /\ [][NextCalendar]_vars

----------------------------------------------------------------------------
(* Simulation: one simulate_move call on a started MCP server, among other tool
   calls that read the analysis *)

InitSimulate ==
    /\ tasks \in SimTaskLists
    /\ clock = BatchClock
    /\ analysis = NoAnalysis
    /\ cfg = NoSchedule
    /\ xml = NoXml
    /\ items = <<>>
    /\ isExpanded = FALSE
    /\ request = [json |-> FALSE, changes |-> <<>>]
    /\ env \in BOOLEAN
    /\ pc = "idle"
    /\ credentials = FALSE
    /\ results = <<>>
    /\ attempt = 1
    /\ log = <<>>
    /\ revalidated = FALSE
    /\ response = NoResponse
    /\ mcpClient = FALSE
    /\ authenticated = FALSE
    /\ cacheStore = NoEntry
    /\ serverVersion = 0
    /\ invalidatedAt = 0
    /\ signIns = 0
    /\ toolCalls = [c \in McpCalls |-> IdleCall]
    /\ running = TRUE
    /\ signingOut = FALSE
    /\ dialog = DialogClosed
    /\ sim = NoSim
    /\ cards = NoCards
    /\ staleQueries = {}

\* simulate_move arrives with its arguments: await getAnalysis() -> getCached. A
\* live cache entry is returned and the handler computes its answer from it;
\* otherwise the fetcher starts with getClient
SimulateMove(c) ==
    /\ running
    /\ toolCalls[c].pc = "idle"
    /\ \A d \in McpCalls : toolCalls[d].tool # "simulate"
    /\ \E taskIds \in SUBSET ({tasks[i].id : i \in 1..Len(tasks)} \cup {"ghost"}) : \E targetHour \in SimTargetHours :
          /\ taskIds # {}
          /\ IF CacheHit
             THEN /\ sim' = simulate_move(analysis, taskIds, targetHour)
                  /\ toolCalls' = [toolCalls EXCEPT ![c] = [@ EXCEPT !.tool = "simulate", !.pc = "done",
                                                                 !.floor = invalidatedAt, !.data = cacheStore.data]]
                  /\ UNCHANGED <<mcpClient, signIns>>
             ELSE /\ sim' = [NoSim EXCEPT !.taskIds = taskIds, !.targetHour = targetHour]
                  /\ getClient(c, "simulate", "fetch")
    /\ UNCHANGED <<analysisVars, xmlVars, storeVars, dialog, routeVars, authenticated, cacheStore, serverVersion,
                   invalidatedAt, running, signingOut, cards, staleQueries>>

\* the tool calls that arrive while the simulation is followed
SimCalls == 1..MaxSimCalls

NextSimulate ==
    \/ \E c \in SimCalls : SimulateMove(c)
    \/ \E c \in SimCalls : StartAnalysis(c)
    \/ \E c \in SimCalls : SignedIn(c)
    \/ \E c \in SimCalls : FetchTasks(c)
    \/ \E c \in SimCalls : ResolveDetails(c)
    \/ \E c \in SimCalls : StoreAnalysis(c)

SpecSimulate == InitSimulate /\ [][NextSimulate]_vars

----------------------------------------------------------------------------
(* Dashboard: the page loads the analysis and renders the health cards from the
   task list, the full list when no filter is active *)

InitDashboard ==
    /\ tasks \in TaskLists
    /\ clock = BatchClock
    /\ analysis = NoAnalysis
    /\ cfg = NoSchedule
    /\ xml = NoXml
    /\ items = <<>>
    /\ isExpanded = FALSE
    /\ RouteIdle
    /\ McpIdle
    /\ dialog = DialogClosed
    /\ sim = NoSim
    /\ cards = NoCards
    /\ staleQueries = {}

RenderCards ==
    /\ analysis.ran
    /\ ~analysis.threw
    /\ ~cards.rendered
    /\ cards' = HealthCards(analysis.details)
    /\ UNCHANGED <<analysisVars, xmlVars, storeVars, routeVars, mcpVars, dialog, sim, staleQueries>>

NextDashboard ==
    \/ Analyze
    \/ RenderCards

SpecDashboard == InitDashboard /\ [][NextDashboard]_vars

----------------------------------------------------------------------------
(* Properties of the analysis *)

StartMinutes(time) == time[1] * 60 + MinutePart(time)

\* the hours visited walking from start to end in steps of the interval, the end
\* being on the next day when start is later than end
RECURSIVE WrapWalk(_, _, _)
WrapWalk(currentMinutes, endMinutes, stepMinutes) ==
    IF currentMinutes <= endMinutes
    THEN {(currentMinutes \div 60) % 24} \cup WrapWalk(currentMinutes + stepMinutes, endMinutes, stepMinutes)
    ELSE {}

WindowedTask(t) ==
    /\ t.schedule.endTime # Null
    /\ \/ t.schedule.frequency = "Hourly"
       \/ t.schedule.frequency = "Daily" /\ t.schedule.intervalHours < 24
    /\ StartMinutes(t.schedule.startTime) > StartMinutes(t.schedule.endTime)

\* C2: a task with a run window whose start is later in the day than its end gets
\* the run hours of the walk that wraps past midnight (22:00 to 02:00 every 2 h
\* gives {22, 0, 2}).
C2_RunHoursWrapPastMidnight ==
    (analysis.ran /\ ~analysis.threw) =>
        \A i \in 1..Len(analysis.details) :
            LET t == analysis.details[i]
            IN WindowedTask(t) =>
                 Range(t.runHours) =
                    WrapWalk(StartMinutes(t.schedule.startTime),
                             StartMinutes(t.schedule.endTime) + 24 * 60,
                             t.schedule.intervalHours * 60)

\* C3: for every returned task and every date of the month, taskRunsOnDate agrees
\* with the calendar aggregation's decision to count the task on that date.
C3_DateFilterMatchesCalendar ==
    (analysis.ran /\ ~analysis.threw) =>
        \A i \in 1..Len(analysis.details) :
            \A day \in 1..getDaysInMonth(analysis.year, analysis.month) :
                taskRunsOnDate(analysis.details[i], analysis.year, analysis.month, day)
                    <=> CalendarIncludes(TaskDetailsOf(tasks)[i], analysis.year, analysis.month, day)

BadStart(task) == task.start = Null \/ task.start[1] = NaN

RECURSIVE WithoutBadStart(_)
WithoutBadStart(ts) ==
    IF ts = <<>> THEN <<>>
    ELSE (IF BadStart(Head(ts)) THEN <<>> ELSE <<Head(ts)>>) \o WithoutBadStart(Tail(ts))

\* C7: records with a missing or unreadable start time are left out of every
\* distribution; the analysis does not throw and counts the other records as if the
\* bad ones were absent.
C7_BadStartIsSkipped ==
    analysis.ran =>
        LET ref == analyzeScheduledTasks(WithoutBadStart(tasks), clock.year, clock.month)
        IN /\ ~analysis.threw
           /\ analysis.byHour = ref.byHour
           /\ analysis.byDay = ref.byDay
           /\ analysis.heatmap = ref.heatmap
           /\ analysis.byDate = ref.byDate

----------------------------------------------------------------------------
(* Properties of the serializer *)

Built == xml # NoXml

MinutesMatch(s) ==
    (s.startTime # Null /\ s.endTime # Null) => MinutePart(s.startTime) = MinutePart(s.endTime)

LegalMonthly(s) ==
    LET list == Len(s.monthDays) > 0
        pair == s.monthlyOrdinal # "" /\ s.monthlyWeekDay # ""
    IN /\ list # pair
       /\ list => \A i \in 1..Len(s.monthDays) : s.monthDays[i] = LastDay \/ s.monthDays[i].n \in 1..31
       /\ pair => /\ s.monthlyOrdinal \in {"First", "Second", "Third", "Fourth", "Fifth", "Last"}
                  /\ s.monthlyWeekDay \in Range(ALL_WEEKDAYS)

\* the documented legal shapes; a Daily schedule every 24 h must have a null end
\* time iff nullEndAt24
LegalShape(s, nullEndAt24) ==
    /\ s.startTime # Null
    /\ CASE s.frequency = "Hourly" -> s.intervalHours = 1 /\ s.endTime # Null /\ MinutesMatch(s)
         [] s.frequency = "Daily" ->
              /\ s.intervalHours \in {2, 4, 6, 8, 12, 24}
              /\ (s.intervalHours < 24 => s.endTime # Null)
              /\ ((nullEndAt24 /\ s.intervalHours = 24) => s.endTime = Null)
              /\ MinutesMatch(s)
         [] s.frequency = "Weekly" -> Len(s.weekDays) \in 1..7
         [] s.frequency = "Monthly" -> LegalMonthly(s)
         [] OTHER -> FALSE

AcceptedDaily24 == Built /\ ~xml.threw /\ cfg.frequency = "Daily" /\ cfg.intervalHours = 24

----------------------------------------------------------------------------
(* Properties of the batch impact preview *)

Preview == useBatchImpact(items, analysis)

\* the weight the plan's items take off hour h
RemovedAt(plan, h) ==
    SeqSum([i \in 1..Len(plan) |->
               plan[i].taskDays * Cardinality({k \in 1..Len(plan[i].runHours) : plan[i].runHours[k] = h})])

\* no subtraction can reach the clamp: the baseline covers what the plan removes
NoClamp == \A h \in Hours : analysis.byHour[h] >= RemovedAt(items, h)

\* C1: for any baseline distribution and any list of batch edits, the proposed
\* distribution is the same for every permutation of the edit list
C1_ProposedDistOrderIndependent ==
    HasImpact =>
        \A p \in Perms([i \in 1..Len(items) |-> i]) :
            ProposedDist(analysis.byHour, [i \in 1..Len(items) |-> items[p[i]]])
                = ProposedDist(analysis.byHour, items)

\* C1 (amended): when at every hour the baseline is at least the weight the edits
\* remove there, the proposed distribution is the same for every permutation of
\* the edit list
C1_ProposedDistOrderIndependentWithoutClamp ==
    (HasImpact /\ NoClamp) =>
        \A p \in Perms([i \in 1..Len(items) |-> i]) :
            ProposedDist(analysis.byHour, [i \in 1..Len(items) |-> items[p[i]]])
                = ProposedDist(analysis.byHour, items)

\* two edits that move weight onto the same hour with different weights, no clamp
C1_Witness ==
    /\ HasImpact
    /\ NoClamp
    /\ Len(items) >= 2
    /\ \E i, j \in 1..Len(items) :
          /\ i # j
          /\ items[i].newRunHours # items[i].runHours
          /\ items[j].newRunHours # items[j].runHours
          /\ items[i].newRunHours = items[j].newRunHours
          /\ computeTaskDays(items[i].newSchedule) # computeTaskDays(items[j].newSchedule)
    /\ Preview.proposedDist # Preview.currentDist

\* the item is as addItem copied it from the task the loaded analysis lists
UneditedItem(item) ==
    /\ item.newSchedule = item.currentSchedule
    /\ item.newRunHours = item.runHours
    /\ \E i \in 1..Len(analysis.details) :
          /\ analysis.details[i].id = item.taskId
          /\ analysis.details[i].schedule = item.currentSchedule
          /\ analysis.details[i].runHours = item.runHours
          /\ analysis.details[i].taskDays = item.taskDays

\* C8: a batch item whose new schedule is identical to its current schedule
\* produces no net change: proposedDist equals currentDist at every hour and all
\* metric deltas are 0
C8_IdenticalScheduleNoNetChange ==
    (HasImpact /\ Len(items) = 1 /\ UneditedItem(items[1])) =>
        /\ \A h \in Hours : Preview.proposedDist[h] = Preview.currentDist[h]
        /\ Preview.deltas.loadBalanceScore = 0
        /\ Preview.deltas.peakAvgRatio = 0
        /\ Preview.deltas.busyWindowPct = 0

----------------------------------------------------------------------------
(* Properties of the reschedule endpoint *)

SerializationFails(changes) ==
    \E i \in 1..Len(changes) : buildScheduleXml(changes[i].schedule).threw

CallsOfKind(kind) == {i \in 1..Len(log) : log[i].kind = kind}

\* C4: if serializing the schedule of any change of a request fails validation,
\* the endpoint answers HTTP 400 and makes no Tableau sign-in or task-update call
C4_SerializationFailureIs400WithoutWrites ==
    (pc = "done" /\ request.json /\ SerializationFails(request.changes)) =>
        /\ response.status = 400
        /\ CallsOfKind("signIn") = {}
        /\ CallsOfKind("update") = {}

\* C5: every schedule that passes the request schema is accepted by the
\* serializer's validator, so buildScheduleXml does not throw for it
C5_SchemaPassImpliesSerializerAccepts ==
    (xml # NoXml /\ scheduleConfigSchema(cfg)) => ~xml.threw

\* the backoff sleeps made while updating the change at position idx
RECURSIVE BackoffsOf(_, _)
BackoffsOf(calls, idx) ==
    IF calls = <<>> THEN <<>>
    ELSE (IF Head(calls).kind = "sleep" /\ Head(calls).idx = idx /\ Head(calls).arg # 150
          THEN <<Head(calls).arg>> ELSE <<>>) \o BackoffsOf(Tail(calls), idx)

UpdatesOf(idx) == {i \in 1..Len(log) : log[i].kind = "update" /\ log[i].idx = idx}

\* C6: an update that keeps failing with 429 or 5xx is retried after 1 s, 2 s and
\* 4 s, three retries after the first attempt, before its failure is reported;
\* a success on any attempt stops the retries
C6_RetriesThreeTimesWithBackoff ==
    \A idx \in 1..Len(results) :
        /\ (~results[idx].success /\ (results[idx].statusCode = 429 \/ results[idx].statusCode >= 500)) =>
              /\ BackoffsOf(log, idx) = <<1000, 2000, 4000>>
              /\ Cardinality(UpdatesOf(idx)) = 4
        /\ results[idx].success =>
              \A i \in UpdatesOf(idx) : log[i].arg \in 200..299 => \A j \in UpdatesOf(idx) : j <= i

UpdateSucceeded == \E i \in 1..Len(log) : log[i].kind = "update" /\ log[i].arg \in 200..299

\* C14: the endpoint invalidates the 'tableau' cache tag if and only if at least
\* one change of the batch succeeded; when every change fails, or the request is
\* rejected or errors, the tag is not invalidated
C14_RevalidatesIffSomeChangeSucceeded ==
    /\ revalidated => UpdateSucceeded
    /\ pc = "done" => (revalidated <=> UpdateSucceeded)

\* a finished batch in which one change succeeded and another failed
C14_Witness ==
    /\ pc = "done"
    /\ revalidated
    /\ Succeeded(results) = 1
    /\ Failed(results) >= 1

PassedValidation == request.json /\ rescheduleRequestSchema(request.changes)

\* the route has called client.signOut() as the last call of the request, after
\* every update call
SignedOutLast == pc = "done" /\ Len(log) > 0 /\ log[Len(log)].kind = "signOut"

\* C15: every reschedule request that passes validation ends with a Tableau
\* signOut call made after the batch update attempt has finished
C15_ValidatedRequestEndsWithSignOut == PassedValidation ~> SignedOutLast

\* the request has entered the route's try block: it passed validation, every
\* schedule was serialized and the Tableau client was created
ReachedSignIn == PassedValidation /\ pc = "signIn"

\* C15 (amended): every request that passes validation and reaches the sign-in
\* ends with a call of the client's signOut made after the batch update attempt
\* has finished, whether the update succeeds, partly fails, fails for every task
\* or throws, and also when the sign-in is refused
C15_StartedRequestEndsWithSignOut == ReachedSignIn ~> SignedOutLast

\* a finished request whose batch update threw after a successful sign-in: the
\* route answered 500 and its signOut call reached Tableau
C15_Witness ==
    /\ SignedOutLast
    /\ log[Len(log)].arg = 1
    /\ response.status = 500
    /\ \E i \in 1..Len(log) : log[i].kind = "signIn"

\* a finished request that signed out after a partly failed batch
SignedOutAfterPartialFailure ==
    /\ SignedOutLast
    /\ Succeeded(results) >= 1
    /\ Failed(results) >= 1

\* a finished request whose sign-in was refused: signOut was called and returned at once
SignedOutAfterRefusedSignIn ==
    /\ SignedOutLast
    /\ log[Len(log)].arg = 0

\* the HTTP status the server gave the last update call of the change at idx
LastUpdateStatus(idx) ==
    log[CHOOSE i \in UpdatesOf(idx) : \A j \in UpdatesOf(idx) : j <= i].arg

\* C17: for a request that passes validation and whose batch update returns, the
\* endpoint answers HTTP 200 with exactly one result per requested change in
\* request order, summary.total = summary.succeeded + summary.failed = number of
\* changes, and success is true exactly when summary.failed is 0
C17_ResponseSummarisesEveryChange ==
    (pc = "done" /\ PassedValidation /\ Len(results) = Len(request.changes)) =>
        /\ response.status = 200
        /\ Len(response.results) = Len(request.changes)
        /\ \A i \in 1..Len(request.changes) :
              /\ response.results[i].taskId = request.changes[i].taskId
              /\ response.results[i].success <=> LastUpdateStatus(i) \in 200..299
        /\ response.summary.total = Len(request.changes)
        /\ response.summary.total = response.summary.succeeded + response.summary.failed
        /\ response.summary.failed = Cardinality({i \in 1..Len(results) : ~results[i].success})
        /\ response.success <=> response.summary.failed = 0

\* a finished two-change request with one success and one failure
C17_Witness ==
    /\ pc = "done"
    /\ response.status = 200
    /\ response.summary.succeeded = 1
    /\ response.summary.failed = 1
    /\ ~response.success

----------------------------------------------------------------------------
(* Properties of Monthly validation *)

ExactlyOneOfOrdinalAndWeekDay(s) == (s.monthlyOrdinal # "") # (s.monthlyWeekDay # "")

\* C11: a Monthly schedule in which exactly one of monthlyOrdinal and
\* monthlyWeekDay is set is rejected by the request schema and by the serializer,
\* whatever monthDays contains
C11_HalfOrdinalPairRejected ==
    (xml # NoXml /\ cfg.frequency = "Monthly" /\ ExactlyOneOfOrdinalAndWeekDay(cfg)) =>
        /\ xml.threw
        /\ ~scheduleConfigSchema(cfg)

----------------------------------------------------------------------------
(* Properties of the MCP server *)

\* C12: once reschedule_task has invalidated the cache, an analysis request that
\* arrives afterwards returns data fetched from Tableau after that update, never
\* a result whose fetch read the schedules before it
C12_AnalysisAfterInvalidationIsFresh ==
    \A c \in McpCalls :
        (toolCalls[c].tool = "analysis" /\ toolCalls[c].pc = "done" /\ ~toolCalls[c].error) =>
            toolCalls[c].data >= toolCalls[c].floor

\* C13: between start-up and shutdown the MCP server calls signIn at most once,
\* even when several tool calls arrive before the first sign-in has completed
C13_SignInAtMostOnce == signIns <= 1

----------------------------------------------------------------------------
(* Properties of applying a plan *)

\* the items of the plan that the answer does not report as updated; an error
\* answer reports nothing
KeptAfterApply ==
    IF response.status = 200
    THEN SelectSeq(items,
                   LAMBDA item : \A i \in 1..Len(response.results) :
                                     response.results[i].taskId = item.taskId
                                         => ~response.results[i].success)
    ELSE items

\* handleApply returns: the dialog leaves its loading state
ApplyCompletes == dialog.state = "loading" /\ dialog'.state # "loading"

\* C16: when an apply request has completed, the batch plan is the plan it was
\* sent from without the items whose update result is success; failed items
\* keep their place and their proposed schedule, and a failed request removes
\* nothing
C16_PlanKeepsEverythingButSucceeded ==
    [][ApplyCompletes => items' = KeptAfterApply]_vars

\* an apply that completed with one item updated and one item failed
C16_Witness ==
    /\ dialog.state = "results"
    /\ dialog.hasResults
    /\ Len(dialog.captured) = 2
    /\ Len(items) = 1
    /\ items[1] \in Range(dialog.captured)

----------------------------------------------------------------------------
(* Properties of the edited run hours *)

\* the item's proposed schedule has a run window whose start and end share
\* their minutes
EditedWindow(item) ==
    /\ item.newSchedule # item.currentSchedule
    /\ item.newSchedule.endTime # Null
    /\ \/ item.newSchedule.frequency = "Hourly"
       \/ item.newSchedule.frequency = "Daily" /\ item.newSchedule.intervalHours \in 1..23
    /\ MinutePart(item.newSchedule.startTime) = MinutePart(item.newSchedule.endTime)

\* the hours of the walk from start to end in steps of intervalHours, the end
\* lying on the next day when the start is later than the end
StrideWalk(schedule) ==
    LET startMinutes == StartMinutes(schedule.startTime)
        endMinutes == StartMinutes(schedule.endTime)
    IN WrapWalk(startMinutes,
                IF startMinutes > endMinutes THEN endMinutes + 24 * 60 ELSE endMinutes,
                schedule.intervalHours * 60)

\* C18: for an edited Hourly or sub-day Daily schedule whose start and end
\* minutes match, computeRunHours gives exactly the hours of the walk from start
\* to end in steps of intervalHours, with the same stride across midnight.
C18_RunHoursFollowTheStrideAcrossMidnight ==
    \A i \in 1..Len(items) :
        EditedWindow(items[i]) => Range(items[i].newRunHours) = StrideWalk(items[i].newSchedule)

----------------------------------------------------------------------------
(* Properties of the hourly distribution *)

\* the weekdays (0 = Monday) a task record names in its intervals, all seven
\* when it names none
ActiveWeekdays(task) ==
    LET named == {DAY_NAME_TO_INDEX(task.intervals[i].weekDay) :
                     i \in {j \in 1..Len(task.intervals) :
                               /\ task.intervals[j].weekDay # ""
                               /\ DAY_NAME_TO_INDEX(task.intervals[j].weekDay) # -1}}
    IN IF named = {} THEN 0..6 ELSE named

\* the (task, active weekday) pairs of the triples whose run hour is h, over the
\* tasks that have a start time
RunTriplesAt(active, hours, h) ==
    {p \in (1..Len(tasks)) \X (0..6) : p[2] \in active[p[1]] /\ h \in hours[p[1]]}

OneDailyAtEight == tasks = <<RawTask("d8", "Daily", Sec(8, 0), Null, <<>>)>>

\* C19: after an analysis, byHour[h] is the number of (task, active weekday, run
\* hour) triples with run hour h, a task without weekday intervals being active
\* on all 7 weekdays; one Daily task at 08:00 once a day with no weekdays gives
\* byHour[8] = 7 and 0 at every other hour.
C19_ByHourCountsTaskDayHourTriples ==
    (analysis.ran /\ ~analysis.threw) =>
        /\ LET active == [i \in 1..Len(tasks) |->
                              IF Skipped(tasks[i]) THEN {} ELSE ActiveWeekdays(tasks[i])]
               hours == [i \in 1..Len(tasks) |->
                              IF Skipped(tasks[i]) THEN {} ELSE Range(RunHoursOf(tasks[i]))]
           IN \A h \in Hours : analysis.byHour[h] = Cardinality(RunTriplesAt(active, hours, h))
        /\ OneDailyAtEight => analysis.byHour = [h \in Hours |-> IF h = 8 THEN 7 ELSE 0]

\* an analysis of a task on all weekdays and a windowed task on two weekdays
C19_Witness ==
    /\ analysis.ran
    /\ ~analysis.threw
    /\ Len(tasks) = 2
    /\ \E i, j \in 1..Len(tasks) :
          /\ ActiveWeekdays(tasks[i]) = 0..6
          /\ Cardinality(ActiveWeekdays(tasks[j])) = 2
          /\ Len(RunHoursOf(tasks[j])) > 1
    /\ analysis.byHour[8] = 9
    /\ analysis.byHour[12] = 2

----------------------------------------------------------------------------
(* Properties of the aggregation *)

\* the hourly distribution, the heatmap cells and the monthly calendar counts
Aggregates(a) == [threw |-> a.threw, byHour |-> a.byHour, heatmap |-> a.heatmap, byDate |-> a.byDate]

\* C20: the hourly distribution, the heatmap cells and the monthly calendar
\* counts of an analysis are the same for every permutation of the task list.
C20_AggregatesIgnoreTaskOrder ==
    analysis.ran =>
        \A p \in Perms(tasks) :
            Aggregates(analyzeScheduledTasks(p, clock.year, clock.month)) = Aggregates(analysis)

\* an analysis of two different tasks that load different hours, days and dates
C20_Witness ==
    /\ analysis.ran
    /\ ~analysis.threw
    /\ Len(tasks) = 2
    /\ ~Skipped(tasks[1])
    /\ ~Skipped(tasks[2])
    /\ RunHoursOf(tasks[1]) # RunHoursOf(tasks[2])
    /\ extractScheduleDays(tasks[1].intervals) # extractScheduleDays(tasks[2].intervals)
    /\ tasks[1].frequency = "Monthly"
    /\ tasks[2].frequency # "Monthly"

----------------------------------------------------------------------------
(* Properties of the monthly calendar *)

\* the dates of the analysed month on which the calendar counts something
NonzeroDates == {d \in DOMAIN analysis.byDate : analysis.byDate[d] # 0}

\* the dates of the analysed month that fall on the weekday of that name
DatesOn(weekDay) ==
    {d \in 1..getDaysInMonth(clock.year, clock.month) :
        JS_DAY_NAMES[JsGetDay(clock.year, clock.month, d) + 1] = weekDay}

\* the date of the N-th (or last) of the dates, none when there are fewer
NthOf(dates, ordinal) ==
    LET n == CASE ordinal = "First" -> 1 [] ordinal = "Second" -> 2 [] ordinal = "Third" -> 3
               [] ordinal = "Fourth" -> 4 [] ordinal = "Fifth" -> 5 [] OTHER -> Cardinality(dates)
    IN {d \in dates : Cardinality({e \in dates : e <= d}) = n}

OrdinalTask(t) ==
    /\ t.frequency = "Monthly"
    /\ Len(t.intervals) = 1
    /\ t.intervals[1].weekDay # ""
    /\ t.intervals[1].monthDay \in CalendarOrdinals

\* C21: for a Monthly task on the N-th occurrence of a weekday the calendar is
\* nonzero on exactly the N-th occurrence of that weekday in the month (Last:
\* the final one), on no date when the month has no fifth occurrence, and 0 on
\* every other date.
C21_OrdinalTaskCountedOnItsOccurrence ==
    (analysis.ran /\ ~analysis.threw /\ Len(tasks) = 1 /\ OrdinalTask(tasks[1])) =>
        LET expected == NthOf(DatesOn(tasks[1].intervals[1].weekDay), tasks[1].intervals[1].monthDay)
        IN /\ NonzeroDates = expected
           /\ Cardinality(expected) <= 1
           /\ tasks[1].intervals[1].monthDay # "Fifth" => Cardinality(expected) = 1

\* a month with five Fridays analysed for the task on the last Friday
C21_Witness ==
    /\ analysis.ran
    /\ Len(tasks) = 1
    /\ OrdinalTask(tasks[1])
    /\ tasks[1].intervals[1] = Interval(0, 0, "Friday", "Last")
    /\ Cardinality(DatesOn("Friday")) = 5
    /\ NonzeroDates = {29}

OnDayTask(t) ==
    /\ t.frequency = "Monthly"
    /\ Len(t.intervals) >= 1
    /\ \A i \in 1..Len(t.intervals) : t.intervals[i].weekDay = "" /\ t.intervals[i].monthDay # ""

\* the dates of the analysed month an On-Day list names: a number names that
\* day of the month when the month has it, LastDay the final day of the month
DatesNamed(t) ==
    LET last == getDaysInMonth(clock.year, clock.month)
    IN {d \in 1..last : \E i \in 1..Len(t.intervals) :
            \/ t.intervals[i].monthDay = DayStr[d]
            \/ t.intervals[i].monthDay = "LastDay" /\ d = last}

\* C22: a Monthly On-Day task is counted on a date exactly when the day of the
\* month is in its day set; LastDay is the final day of that month (28 or 29 in
\* February) and a numeric day the month does not have never matches.
C22_OnDayTaskCountedOnItsDays ==
    (analysis.ran /\ ~analysis.threw /\ Len(tasks) = 1 /\ OnDayTask(tasks[1])) =>
        /\ NonzeroDates = DatesNamed(tasks[1])
        /\ \A d \in DOMAIN analysis.byDate : analysis.byDate[d] \in {0, 1}

\* the February of a leap year analysed for a task on days 29, 30 and LastDay
C22_Witness ==
    /\ analysis.ran
    /\ Len(tasks) = 1
    /\ OnDayTask(tasks[1])
    /\ Len(tasks[1].intervals) = 3
    /\ clock = [year |-> 2024, month |-> 2]
    /\ NonzeroDates = {29}

----------------------------------------------------------------------------
(* Properties of the health metrics *)

AllZero(dist) == \A h \in Hours : dist[h] = 0

\* score 100, utilization 0, ratio 0, window "N/A" with count 0 and pct 0, all green
EmptyLoadMetrics ==
    [loadBalanceScore |-> [value |-> 100, health |-> "green"],
     busiestWindow |-> [label |-> <<>>, count |-> 0, pct |-> 0, health |-> "green"],
     utilization |-> [value |-> 0, health |-> "green"],
     peakAvgRatio |-> [value |-> 0, health |-> "green"]]

\* C25: for an all-zero 24-hour distribution the health metrics are score 100,
\* utilization 0, peak-to-average 0 and busiest window "N/A" with count 0 and
\* pct 0, all green, from the analyzer, the batch preview and the simulation.
C25_EmptyDistributionIsAllGreen ==
    (analysis.ran /\ ~analysis.threw /\ AllZero(analysis.byHour)) =>
        /\ analysis.enhancedStats = EmptyLoadMetrics
        /\ computeHealthMetrics(analysis.byHour) = EmptyLoadMetrics
        /\ computeHealthFromDistribution(analysis.byHour) = EmptyLoadMetrics

\* an analysis of tasks that all lack a start time
C25_Witness ==
    /\ analysis.ran
    /\ ~analysis.threw
    /\ Len(tasks) >= 1
    /\ \A i \in 1..Len(tasks) : Skipped(tasks[i])
    /\ AllZero(analysis.byHour)
    /\ analysis.enhancedStats.loadBalanceScore.value = 100

----------------------------------------------------------------------------
(* Properties of the proposed distribution *)

NonNegative(dist) == \A h \in Hours : dist[h] >= 0

\* the tasks of the analysis with these positions, in the order of the analysis
DetailsAt(positions) ==
    LET RECURSIVE Pick(_)
        Pick(i) == IF i > Len(analysis.details) THEN <<>>
                   ELSE (IF i \in positions THEN <<analysis.details[i]>> ELSE <<>>) \o Pick(i + 1)
    IN Pick(1)

\* C23: for any baseline and any batch every hour of the proposed distribution
\* is at least 0 after each edit: subtracting an old weight larger than the
\* current count leaves 0. The same holds for each simulated move.
C23_ProposedDistNeverNegative ==
    (analysis.ran /\ ~analysis.threw) =>
        /\ \A k \in 1..Len(items) :
              LET before == ProposedDist(analysis.byHour, SubSeq(items, 1, k - 1))
              IN /\ NonNegative(SubtractHours(before, items[k].runHours, items[k].taskDays))
                 /\ NonNegative(ProposedDist(analysis.byHour, SubSeq(items, 1, k)))
        /\ \A positions \in SUBSET (1..Len(analysis.details)) : \A targetHour \in Hours :
              NonNegative(MoveTasks(analysis.byHour, DetailsAt(positions), targetHour))

\* an item whose old weight exceeds what the reloaded baseline holds at its hour
C23_Witness ==
    /\ HasImpact
    /\ \E k \in 1..Len(items) : \E i \in 1..Len(items[k].runHours) :
          LET before == ProposedDist(analysis.byHour, SubSeq(items, 1, k - 1))
              hour == items[k].runHours[i]
          IN /\ before[hour] < items[k].taskDays
             /\ SubtractHours(before, items[k].runHours, items[k].taskDays)[hour] = 0

\* the weight of a proposed schedule: the selected weekdays (7 when none) for
\* Hourly, Daily and Weekly, 4 for Monthly
NewWeight(schedule) ==
    IF schedule.frequency = "Monthly" THEN 4
    ELSE IF schedule.weekDays = <<>> THEN 7 ELSE Len(schedule.weekDays)

\* the baseline with the item's old weight taken off each old run hour and the
\* new weight put on each new run hour
SingleEdit(baseline, item) ==
    [h \in Hours |->
        baseline[h] - item.taskDays * CountIn(item.runHours, h)
            + NewWeight(item.newSchedule) * CountIn(item.newRunHours, h)]

\* the same, a count that the subtraction would take below 0 being left at 0
SingleEditClamped(baseline, item) ==
    [h \in Hours |->
        LET left == baseline[h] - item.taskDays * CountIn(item.runHours, h)
        IN (IF left < 0 THEN 0 ELSE left) + NewWeight(item.newSchedule) * CountIn(item.newRunHours, h)]

FourteenAtEight == [h \in Hours |-> IF h = 8 THEN 14 ELSE 0]

DailyEightToTwo(item) ==
    /\ item.runHours = <<8>>
    /\ item.taskDays = 7
    /\ item.newRunHours = <<2>>
    /\ item.newSchedule.frequency = "Daily"

\* C24: for a single edit the proposed distribution is the baseline with the
\* task's old weight (taskDays) subtracted at each old run hour and the new
\* weight added at each new run hour; a Daily task with taskDays 7 moved from
\* hour 8 to hour 2 on a baseline of 14 at hour 8 gives 7 at hour 8 and 7 at hour 2.
C24_SingleEditSubtractsAndAdds ==
    (HasImpact /\ Len(items) = 1) =>
        /\ Preview.proposedDist = SingleEdit(analysis.byHour, items[1])
        /\ DailyEightToTwo(items[1]) =>
              ProposedDist(FourteenAtEight, items) = [h \in Hours |-> IF h \in {2, 8} THEN 7 ELSE 0]

\* C24 (amended): for a single edit the proposed distribution is the baseline
\* with the task's old weight subtracted at each old run hour, a count never
\* going below 0, and the new weight added at each new run hour; the example of
\* the Daily task moved from hour 8 to hour 2 holds as stated.
C24_SingleEditSubtractsClampedAndAdds ==
    (HasImpact /\ Len(items) = 1) =>
        /\ Preview.proposedDist = SingleEditClamped(analysis.byHour, items[1])
        /\ DailyEightToTwo(items[1]) =>
              ProposedDist(FourteenAtEight, items) = [h \in Hours |-> IF h \in {2, 8} THEN 7 ELSE 0]

\* one edited item: a Daily task at hour 8 rescheduled to hour 2
C24_Witness ==
    /\ HasImpact
    /\ Len(items) = 1
    /\ DailyEightToTwo(items[1])
    /\ analysis.byHour[8] = 7
    /\ Preview.proposedDist[8] = 0
    /\ Preview.proposedDist[2] >= 7

----------------------------------------------------------------------------
(* Properties of the batch plan *)

NoTaskTwice == \A i, j \in 1..Len(items) : i # j => items[i].taskId # items[j].taskId

TaskInPlan(taskId) == \E i \in 1..Len(items) : items[i].taskId = taskId

\* C26: after any sequence of batch-store operations no two items of the plan
\* refer to the same task, and adding a task whose id is already in the plan
\* leaves the plan unchanged.
C26_NoTaskTwiceInPlan ==
    /\ []NoTaskTwice
    /\ [][\A i \in 1..Len(analysis.details) :
            (TaskInPlan(analysis.details[i].id) /\ addItem(analysis.details[i])) => items' = items]_vars

\* a plan of two tasks that the loaded analysis still lists, so that adding
\* either again is possible
C26_Witness ==
    /\ Len(items) = 2
    /\ NoTaskTwice
    /\ \A k \in 1..Len(items) : \E i \in 1..Len(analysis.details) : analysis.details[i].id = items[k].taskId

----------------------------------------------------------------------------
(* Properties of the simulation *)

\* the task record running once, at the target hour, on its same weekdays
Retimed(t, targetHour) ==
    RawTask(t.id, t.frequency, Sec(targetHour, 0), Null,
            SelectSeq(t.intervals, LAMBDA it : it.hours = 0 /\ it.minutes = 0))

\* the server's task list with every named task run only at the target hour
TasksAfterMove ==
    [i \in 1..Len(tasks) |->
        IF tasks[i].id \in sim.taskIds THEN Retimed(tasks[i], sim.targetHour) ELSE tasks[i]]

\* C27: for non-hourly tasks the proposed distribution of simulate_move equals the
\* hourly distribution the analysis would produce if each named task ran only at
\* the target hour on its same weekdays.
C27_SimulationMatchesReanalysis ==
    (sim.ran /\ sim.outcome = "ok") =>
        sim.proposedDist = analyzeScheduledTasks(TasksAfterMove, clock.year, clock.month).byHour

----------------------------------------------------------------------------
(* Properties of the dashboard *)

\* C28: with no filter active the health metrics the dashboard cards compute
\* from the tasks equal analysis.enhancedStats, computed from the
\* weekday-times-hour hourly distribution of the same tasks.
C28_CardsMatchEnhancedStats ==
    cards.rendered => cards.enhancedStats = analysis.enhancedStats

\* the same, looking only at the scores, ratios and bands and not at the busiest
\* window's raw count
CardsMatchEnhancedStatsUpToCount ==
    cards.rendered =>
        [cards.enhancedStats EXCEPT !.busiestWindow.count = 0]
            = [analysis.enhancedStats EXCEPT !.busiestWindow.count = 0]

----------------------------------------------------------------------------
(* Properties of the heatmap *)

\* C29: in every analysis result, for each hour h the heatmap cells (weekday, h)
\* of the 7 weekdays add up to byHour[h], and for each weekday its 24 heatmap
\* cells add up to byDay of that weekday.
C29_HeatmapSumsToHourlyAndDaily ==
    (analysis.ran /\ ~analysis.threw) =>
        /\ \A h \in Hours :
              SeqSum([i \in 1..7 |-> analysis.heatmap[<<i - 1, h>>]]) = analysis.byHour[h]
        /\ \A d \in 0..6 :
              SeqSum([i \in 1..24 |-> analysis.heatmap[<<d, i - 1>>]]) = analysis.byDay[d]

\* an analysis that includes a task running at several hours on two weekdays only
C29_Witness ==
    /\ analysis.ran
    /\ ~analysis.threw
    /\ \E i \in 1..Len(tasks) :
          /\ ~Skipped(tasks[i])
          /\ Len(RunHoursOf(tasks[i])) = 4
          /\ Len(extractScheduleDays(tasks[i].intervals)) = 2
    /\ analysis.byDay[0] >= 4
    /\ analysis.heatmap[<<0, 12>>] >= 1
    /\ analysis.heatmap[<<1, 12>>] = 0

====
